---- MODULE Spec2Model ----
(***************************************************************************)
(* A model of the jp2n Joplin plugin: the publish command                  *)
(* (src/src/publish.ts, publishToNostr), the relay list lookup             *)
(* (getRelays), the batch image upload (src/src/imageUploader.ts) and the  *)
(* profile / relay-list fetch (src/src/profile.ts, fetchProfileInfo).      *)
(*                                                                         *)
(* Strings are modelled by the features the code reads from them: the      *)
(* secret key setting by its length and its 'nsec1' prefix, a comma        *)
(* separated relay list by the sequence of its trimmed entries.  The       *)
(* nostr-tools library, the upload server and the host dialogs are the     *)
(* environment: every call into them is a step whose outcome is chosen     *)
(* nondeterministically, and a call may also never complete.  The host     *)
(* settings and dialog API itself is taken to be reliable (it does not     *)
(* throw) in Spec and FetchSpec, so the outermost handler of               *)
(* publishToNostr (lines 388-405) is not entered; FetchFaultSpec is        *)
(* FetchSpec with host writes that may be rejected, which is what leads    *)
(* fetchProfileInfo into its catch block (profile.ts 282-287).             *)
(***************************************************************************)
EXTENDS Integers, Sequences, FiniteSets, TLC

\* ------------------------------------------------------------------ bounds
MaxRelays == 2
MaxImages == 2
MaxNow == 1
MaxEvents == 2
MaxPieces == 4
MaxRuns == 2

\* --------------------------------------------------------- program constants
MinNsecLen == 50
MaxNsecLen == 70
LongNoteLen == 256
KindNote == 1
KindLongForm == 30023
KindProfile == 0
KindRelayList == 10002
KindBlossomAuth == 24242
AuthLifetime == 300

\* ------------------------------------------------------------ input universes
RelayUrls == {"wss://a", "wss://b"}
ImagePaths == {"/a.png", "/b.png"}
ConnectErrs == {"refused"}
PublishErrs == {"blocked"}
ErrMsgs == ConnectErrs \cup PublishErrs
NoNote == [title |-> "", len |-> 0, images |-> <<>>, open |-> FALSE]

SeqsUpTo(S, n) == UNION {[1..k -> S] : k \in 0..n}

Notes ==
    {NoNote} \cup
    {[title |-> "T", len |-> l, images |-> im, open |-> TRUE] :
        l \in {LongNoteLen, LongNoteLen + 1}, im \in SeqsUpTo(ImagePaths, MaxImages)}

\* the secret key setting: its text, its length, whether it starts with 'nsec1'
NsecValues ==
    { [text |-> "",       len |-> 0,  prefix |-> FALSE],
      [text |-> "npub1x", len |-> 63, prefix |-> FALSE],
      [text |-> "nsec1s", len |-> MinNsecLen - 1, prefix |-> TRUE],
      [text |-> "nsec1a", len |-> MinNsecLen,     prefix |-> TRUE],
      [text |-> "nsec1b", len |-> MaxNsecLen,     prefix |-> TRUE],
      [text |-> "nsec1l", len |-> MaxNsecLen + 1, prefix |-> TRUE] }

VARIABLES
    \* ---- host state
    settings,         \* the plugin settings store
    note,             \* joplin.workspace.selectedNote()
    now,              \* Math.floor(Date.now() / 1000)
    \* ---- publishToNostr
    pc,               \* position in publishToNostr
    publishMode,
    loadingDialog,    \* "none" | "open" | "cancelled"
    showResultDialog,
    messageBox,       \* messages shown with showMessageBox, in order
    resultDialog,     \* the result dialog opened at the end, or NoDialog
    decoded,          \* outcome of nip19.decode(nsec)
    upload,           \* uploadImages: loop index, request in flight, the results map,
                      \* and the logs of calls, PUT requests and returned results
    noteContent,
    signedEvent,
    signCount,        \* number of calls of finalizeEvent for the note
    ri,               \* index of the relay loop
    relayPhase,       \* "idle" | "connecting" | "publishing"
    netFate,          \* whether the pending library call will ever settle
    successCount,
    errorMessages,
    relayLog,         \* per configured relay: what was done to it
    \* ---- fetchProfileInfo
    fpc,              \* position in fetchProfileInfo
    fci,              \* index of the connect loop
    fconn,            \* relayConnections, connect attempts, pending connect, open
                      \* connections, subscribe calls that threw, close calls
    subs,             \* subscriptions opened: [relay, kind]
    timers,           \* the three setTimeout timers
    found,            \* profileFound / relayListFound
    promise,          \* profilePromise / relayListPromise
    fetched,          \* profileName, profilePicture, nip65RelayList
    panelHtml,        \* what the profile panel shows
    delivered,        \* number of subscription callbacks (onevent, oneose) run so far
    matched,          \* per filter: the events of the filter's kind delivered, in order
    eose,             \* the subscriptions whose end-of-stored-events was delivered
    hostFault,        \* a host write of fetchProfileInfo was rejected
    \* ---- single calls of the uploader and of the rewriters
    uc,               \* one call of uploadImageToBlossom: inputs, requests sent, result
    rw,               \* one call of a rewriter: text, mapping, style and outputs
    \* ---- updateDerivedValues
    ud                \* the runs of updateDerivedValues started by changes of the key

fvars == <<fpc, fci, fconn, subs, timers, found, promise, fetched, panelHtml, delivered,
           matched, eose, hostFault>>

pvars == <<pc, publishMode, loadingDialog, showResultDialog, messageBox, resultDialog,
           decoded, upload, noteContent, signedEvent, signCount, ri, relayPhase,
           netFate, successCount, errorMessages, relayLog>>

xvars == <<uc, rw, ud>>

vars == <<settings, note, now, pvars, fvars, xvars>>

NoDialog == [shown |-> FALSE]
NoEvent == [kind |-> -1]

\* ------------------------------------------------------------ pure functions

RECURSIVE FilterNonEmpty(_)
FilterNonEmpty(s) ==
    IF s = <<>> THEN <<>>
    ELSE IF Head(s) = "" THEN FilterNonEmpty(Tail(s))
         ELSE <<Head(s)>> \o FilterNonEmpty(Tail(s))

\* getRelays: split(',').map(trim).filter(r => r) of the setting the source selects
getRelays(st) ==
    IF st.relaySource = "manual" THEN FilterNonEmpty(st.relayList)
    ELSE IF st.relaySource = "nip65" THEN FilterNonEmpty(st.nip65Relays)
    ELSE <<>>

relays == getRelays(settings)
NRelays == Len(relays)

\* the local checks of publishToNostr, in the order of the code; "" when all pass
ValidationErrorNoLength(nsec, rl, source) ==
    IF nsec.len = 0 THEN "Please enter your NSEC private key"
    ELSE IF Len(rl) = 0 THEN
        (IF source = "manual" THEN "Please enter at least one relay"
         ELSE "No NIP-65 relays found")
    ELSE IF ~nsec.prefix THEN "NSEC keys should start with nsec1"
    ELSE ""

ValidationError(nsec, rl, source) ==
    IF nsec.len = 0 THEN "Please enter your NSEC private key"
    ELSE IF Len(rl) = 0 THEN
        (IF source = "manual" THEN "Please enter at least one relay"
         ELSE "No NIP-65 relays found")
    ELSE IF ~nsec.prefix THEN "NSEC keys should start with nsec1"
    ELSE IF nsec.len < MinNsecLen \/ nsec.len > MaxNsecLen THEN "The key length appears incorrect"
    ELSE ""

getPublicKey(sk) == <<"pub", sk>>

\* nostrTools.finalizeEvent: adds pubkey, id and signature over the other fields
finalizeEvent(ev, sk) ==
    [kind |-> ev.kind, created_at |-> ev.created_at, tags |-> ev.tags,
     content |-> ev.content, pubkey |-> getPublicKey(sk),
     sig |-> <<"sig", ev.kind, ev.created_at, ev.tags, ev.content, sk>>]

\* the event template of lines 258-304
EventTemplate(mode, n, content, t) ==
    IF mode = "longform"
    THEN [kind |-> KindLongForm, created_at |-> t,
          tags |-> << <<"client", "joplin-plugin-jp2n">>, <<"d", <<"slug", n.title, t>> >>,
                      <<"title", n.title>>, <<"summary", <<"summary", content>> >>,
                      <<"published_at", t>> >>,
          content |-> content]
    ELSE [kind |-> KindNote, created_at |-> t,
          tags |-> << <<"client", "joplin-plugin-jp2n">> >>,
          content |-> <<n.title, "\n\n", content>>]

\* errorMessages.push(`${relayUrl}: ${relayError.message}`)
PushErrorFront(errs, url, msg) == <<[url |-> url, message |-> msg]>> \o errs

PushError(errs, url, msg) == Append(errs, [url |-> url, message |-> msg])

\* ------------------------------------------------------------ image upload

UploadUrls == {"https://h/1", "https://h/2"}

\* a property that a JavaScript object does not have
Undefined == "undefined"

\* a value that is true in a condition
Truthy(v) == v # "" /\ v # Undefined

\* what the PUT request can come back with: fetch rejects (message), or the
\* response has a status code (httpOk is response.ok), a body text, and, when
\* the body is JSON, the status and url properties of the parsed object
UploadResponses ==
    { [transport |-> "error", message |-> "ECONNREFUSED", httpOk |-> FALSE, code |-> Undefined,
       text |-> "", parseable |-> FALSE, status |-> Undefined, url |-> Undefined],
      [transport |-> "ok", message |-> "", httpOk |-> FALSE, code |-> "500",
       text |-> "boom", parseable |-> FALSE, status |-> Undefined, url |-> Undefined],
      [transport |-> "ok", message |-> "", httpOk |-> FALSE, code |-> "401",
       text |-> "json", parseable |-> TRUE, status |-> "success", url |-> "https://h/1"],
      [transport |-> "ok", message |-> "Unexpected token <", httpOk |-> TRUE, code |-> "200",
       text |-> "<html>", parseable |-> FALSE, status |-> Undefined, url |-> Undefined] }
    \cup
    { [transport |-> "ok", message |-> "", httpOk |-> TRUE, code |-> "200",
       text |-> "json", parseable |-> TRUE, status |-> s, url |-> u] :
        s \in {"success", "error", Undefined}, u \in UploadUrls \cup {"", Undefined} }

\* uploadImageToBlossom, lines 142-177: the result for a response
UploadResult(path, resp) ==
    IF resp.transport = "error" THEN [originalPath |-> path, url |-> "", success |-> FALSE]
    ELSE IF ~resp.httpOk THEN [originalPath |-> path, url |-> "", success |-> FALSE]
    ELSE IF ~resp.parseable THEN [originalPath |-> path, url |-> "", success |-> FALSE]
    ELSE IF resp.status = "success" /\ Truthy(resp.url)
         THEN [originalPath |-> path, url |-> resp.url, success |-> TRUE]
    ELSE IF Truthy(resp.url) THEN [originalPath |-> path, url |-> resp.url, success |-> TRUE]
    ELSE [originalPath |-> path, url |-> "", success |-> FALSE]

\* uploadImageToBlossom, lines 142-176: the message of the error that the catch
\* block puts into the result; <<>> when nothing was thrown
NoError == <<>>

UploadError(path, resp) ==
    IF resp.transport = "error" THEN <<resp.message>>
    ELSE IF ~resp.httpOk THEN <<"Server responded with ", resp.code, ": ", resp.text>>
    ELSE IF ~resp.parseable THEN <<resp.message>>
    ELSE IF Truthy(resp.url) THEN NoError
    ELSE <<"Unable to parse Blossom server response: URL not found">>

\* uploadImageToBlossom, lines 58-67: the result when the file does not exist
FileNotFound(path) == [originalPath |-> path, url |-> "", success |-> FALSE]

\* uploadImages, lines 198-201: a successful result is stored under its path
StoreResultAlways(images, res) == (res.originalPath :> res.url) @@ images

StoreResult(images, res) ==
    IF res.success /\ res.url # "" THEN (res.originalPath :> res.url) @@ images ELSE images

NoImages == [p \in {} |-> ""]

UploadsWanted == settings.enableImageUpload /\ settings.blossomServerUrl # ""
                    /\ Len(note.images) > 0

ContentUnmodified(n, images) == [body |-> "body", replaced |-> NoImages]

\* replaceImageUrls is applied only when at least one upload succeeded (line 240)
ContentAfterUpload(n, images) ==
    IF DOMAIN images # {} THEN [body |-> "body", replaced |-> images]
    ELSE [body |-> "body", replaced |-> NoImages]

\* ------------------------------------------------------------ initial state

ValidNsec == [text |-> "nsec1a", len |-> MinNsecLen, prefix |-> TRUE]

\* settings that exercise the local checks (every key, short relay lists) and
\* settings of full runs (a valid key, every relay list, every upload setting)
SettingsValues ==
    { [nsecString |-> k, relaySource |-> "manual", relayList |-> rl, nip65Relays |-> <<>>,
       enableImageUpload |-> FALSE, blossomServerUrl |-> "https://blossom",
       npubDisplay |-> "", profileName |-> "", profilePicture |-> ""] :
         k \in NsecValues, rl \in {<<>>, <<"">>, <<"wss://a">>} }
    \cup
    { [nsecString |-> k, relaySource |-> "nip65", relayList |-> <<"wss://a">>, nip65Relays |-> nr,
       enableImageUpload |-> FALSE, blossomServerUrl |-> "https://blossom",
       npubDisplay |-> "", profileName |-> "", profilePicture |-> ""] :
         k \in NsecValues, nr \in {<<>>, <<"wss://b">>} }
    \cup
    { [nsecString |-> ValidNsec, relaySource |-> "manual", relayList |-> rl, nip65Relays |-> <<>>,
       enableImageUpload |-> TRUE, blossomServerUrl |-> "https://blossom",
       npubDisplay |-> "", profileName |-> "", profilePicture |-> ""] :
         rl \in SeqsUpTo(RelayUrls, MaxRelays) \cup {<<"", "wss://b">>, <<"wss://a", "">>} }
    \cup
    { [nsecString |-> ValidNsec, relaySource |-> "manual", relayList |-> <<"wss://a">>,
       nip65Relays |-> <<>>, enableImageUpload |-> TRUE, blossomServerUrl |-> "",
       npubDisplay |-> "", profileName |-> "", profilePicture |-> ""] }

\* the notes a setting is run with: several images only where they are uploaded,
\* and then with at most one relay
NotesFor(st) ==
    IF st.enableImageUpload /\ st.blossomServerUrl # "" /\ Len(st.relayList) <= 1 THEN Notes
    ELSE {n \in Notes : Len(n.images) <= 1}

NoRelayLog == [connects |-> 0, publishes |-> 0, closes |-> 0, open |-> FALSE,
               sent |-> NoEvent, succ |-> 0, fail |-> 0, err |-> ""]

NoUpload == [idx |-> 0, inflight |-> FALSE, images |-> NoImages, attempts |-> <<>>,
             requests |-> <<>>, results |-> <<>>]

PInit ==
    /\ pc = "start"
    /\ publishMode = "regular"
    /\ loadingDialog = "none"
    /\ showResultDialog = FALSE
    /\ messageBox = <<>>
    /\ resultDialog = NoDialog
    /\ decoded = "none"
    /\ upload = NoUpload
    /\ noteContent = [body |-> "body", replaced |-> NoImages]
    /\ signedEvent = NoEvent
    /\ signCount = 0
    /\ ri = 0
    /\ relayPhase = "idle"
    /\ netFate = "none"
    /\ successCount = 0
    /\ errorMessages = <<>>
    /\ relayLog = [j \in 1..NRelays |-> NoRelayLog]

\* fetchProfileInfo has not been called
FIdle ==
    /\ fpc = "idle"
    /\ fci = 0
    /\ fconn = [connections |-> <<>>, attempts |-> <<>>, pending |-> FALSE, open |-> {},
                closed |-> {}, subThrew |-> {}, closeThrew |-> {}]
    /\ subs = {}
    /\ timers = [hard |-> "unset", profile |-> "unset", relayList |-> "unset"]
    /\ found = [profile |-> FALSE, relayList |-> FALSE]
    /\ promise = [profile |-> "none", relayList |-> "none"]
    /\ fetched = [profileName |-> "", profilePicture |-> "", nip65RelayList |-> <<>>]
    /\ panelHtml = "No profile loaded yet"
    /\ delivered = 0
    /\ matched = [profile |-> <<>>, relayList |-> <<>>]
    /\ eose = {}
    /\ hostFault = FALSE

\* no single call is being examined
XIdle ==
    /\ uc = [pc |-> "idle"]
    /\ rw = [pc |-> "idle"]
    /\ ud = [runs |-> <<>>, overlapped |-> FALSE]

Init ==
    /\ settings \in SettingsValues
    /\ note \in NotesFor(settings)
    /\ now = 0
    /\ PInit
    /\ FIdle
    /\ XIdle

\* ------------------------------------------------------------ publishToNostr

\* lines 31-72: no note selected, or a local check fails, or the confirmation is shown
Start ==
    /\ pc = "start"
    /\ IF ~note.open THEN pc' = "done" /\ UNCHANGED messageBox
       ELSE LET e == ValidationError(settings.nsecString, relays, settings.relaySource) IN
            IF e # "" THEN pc' = "done" /\ messageBox' = Append(messageBox, e)
            ELSE pc' = "confirm" /\ UNCHANGED messageBox
    /\ UNCHANGED <<fvars, xvars, settings, note, now, publishMode, loadingDialog, showResultDialog,
                   resultDialog, decoded, upload, noteContent, signedEvent, signCount, ri,
                   relayPhase, netFate, successCount, errorMessages, relayLog>>

ConfirmButtonsAll == {"cancel", "regular", "longform"}

\* the buttons of the confirmation dialog (lines 95-148)
ConfirmButtons == IF note.len > LongNoteLen THEN {"cancel", "regular", "longform"}
                  ELSE {"cancel", "regular"}

ConfirmIgnoresCancel(button) ==
    /\ pc = "confirm"
    /\ button \in ConfirmButtons
    /\ pc' = "decode"
    /\ publishMode' = (IF button = "longform" THEN "longform" ELSE "regular")
    /\ loadingDialog' = "open"
    /\ showResultDialog' = TRUE
    /\ UNCHANGED <<fvars, xvars, settings, note, now, messageBox, resultDialog, decoded, upload, noteContent,
                   signedEvent, signCount, ri, relayPhase, netFate, successCount,
                   errorMessages, relayLog>>

\* lines 150-191: the user answers the confirmation; the loading dialog is opened
Confirm(button) ==
    /\ pc = "confirm"
    /\ button \in ConfirmButtons
    /\ IF button = "cancel"
       THEN pc' = "done" /\ UNCHANGED <<publishMode, loadingDialog, showResultDialog>>
       ELSE /\ pc' = "decode"
            /\ publishMode' = (IF button = "longform" THEN "longform" ELSE "regular")
            /\ loadingDialog' = "open"
            /\ showResultDialog' = TRUE
    /\ UNCHANGED <<fvars, xvars, settings, note, now, messageBox, resultDialog, decoded, upload, noteContent,
                   signedEvent, signCount, ri, relayPhase, netFate, successCount,
                   errorMessages, relayLog>>

\* lines 183-188: the handler of the loading dialog's promise
LoadingCancelAborts ==
    /\ loadingDialog = "open"
    /\ loadingDialog' = "cancelled"
    /\ showResultDialog' = FALSE
    /\ pc' = "done"
    /\ UNCHANGED <<fvars, xvars, settings, note, now, publishMode, messageBox, resultDialog, decoded,
                   upload, noteContent, signedEvent, signCount, ri, relayPhase, netFate,
                   successCount, errorMessages, relayLog>>

LoadingCancel ==
    /\ loadingDialog = "open"
    /\ loadingDialog' = "cancelled"
    /\ showResultDialog' = FALSE
    /\ UNCHANGED <<fvars, xvars, settings, note, now, pc, publishMode, messageBox, resultDialog, decoded,
                   upload, noteContent, signedEvent, signCount, ri, relayPhase, netFate,
                   successCount, errorMessages, relayLog>>

\* lines 194-204 and 384-387: import nostr-tools and decode the key
DecodeOutcomes == {"nsec", "othertype", "throws", "importfails"}

Decode(outcome) ==
    /\ pc = "decode"
    /\ outcome \in DecodeOutcomes
    /\ decoded' = outcome
    /\ IF outcome = "nsec"
       THEN /\ UNCHANGED messageBox
            /\ IF UploadsWanted
               THEN pc' = "uploading" /\ upload' = [upload EXCEPT !.idx = 1]
               ELSE pc' = "compose" /\ UNCHANGED upload
       ELSE /\ pc' = "done"
            /\ messageBox' = Append(messageBox,
                   IF outcome = "othertype" THEN "Invalid NSEC provided"
                   ELSE "Error importing nostr-tools")
            /\ UNCHANGED upload
    /\ UNCHANGED <<fvars, xvars, settings, note, now, publishMode, loadingDialog, showResultDialog,
                   resultDialog, noteContent, signedEvent, signCount, ri, relayPhase, netFate,
                   successCount, errorMessages, relayLog>>

\* ---- uploadImages (imageUploader.ts 187-205), one uploadImageToBlossom per step

\* imageUploader.ts 194-202: the loop goes on to the next path whatever the result
NextItemUnlessFailed(i, res) == IF res.success THEN i + 1 ELSE Len(note.images) + 1

NextItem(i, res) == i + 1

\* lines 58-142: the file is checked and, when it exists, the PUT request is sent
UploadStart(i, exists, fate) ==
    /\ pc = "uploading"
    /\ upload.idx = i
    /\ i <= Len(note.images)
    /\ ~upload.inflight
    /\ IF exists
       THEN /\ upload' = [upload EXCEPT !.inflight = TRUE,
                                       !.attempts = Append(@, note.images[i]),
                                       !.requests = Append(@, note.images[i])]
            /\ netFate' = fate
       ELSE /\ upload' = [upload EXCEPT !.idx = NextItem(i, FileNotFound(note.images[i])),
                                       !.attempts = Append(@, note.images[i]),
                                       !.results = Append(@, FileNotFound(note.images[i])),
                                       !.images = StoreResult(@, FileNotFound(note.images[i]))]
            /\ UNCHANGED netFate
    /\ UNCHANGED <<fvars, xvars, settings, note, now, pc, publishMode, loadingDialog, showResultDialog,
                   messageBox, resultDialog, decoded, noteContent, signedEvent, signCount, ri,
                   relayPhase, successCount, errorMessages, relayLog>>

\* lines 142-177 and 198-201: the request returns and its result is stored
UploadFinish(i, resp) ==
    /\ pc = "uploading"
    /\ upload.idx = i
    /\ upload.inflight
    /\ netFate = "settles"
    /\ upload' = [upload EXCEPT !.inflight = FALSE,
                                !.idx = NextItem(i, UploadResult(note.images[i], resp)),
                                !.results = Append(@, UploadResult(note.images[i], resp)),
                                !.images = StoreResult(@, UploadResult(note.images[i], resp))]
    /\ netFate' = "none"
    /\ UNCHANGED <<fvars, xvars, settings, note, now, pc, publishMode, loadingDialog, showResultDialog,
                   messageBox, resultDialog, decoded, noteContent, signedEvent, signCount, ri,
                   relayPhase, successCount, errorMessages, relayLog>>

\* publish.ts 234-249: uploadImages has returned; the note content is rewritten
UploadsDone ==
    /\ pc = "uploading"
    /\ upload.idx > Len(note.images)
    /\ noteContent' = ContentAfterUpload(note, upload.images)
    /\ pc' = "compose"
    /\ UNCHANGED <<fvars, xvars, settings, note, now, publishMode, loadingDialog, showResultDialog,
                   messageBox, resultDialog, decoded, upload, signedEvent, signCount, ri,
                   relayPhase, netFate, successCount, errorMessages, relayLog>>

secretKey == <<"sk", settings.nsecString.text>>

\* lines 253-312: the event is composed and signed; the relay loop starts
Sign ==
    /\ pc = "compose"
    /\ signedEvent' = finalizeEvent(EventTemplate(publishMode, note, noteContent, now), secretKey)
    /\ signCount' = signCount + 1
    /\ successCount' = 0
    /\ errorMessages' = <<>>
    /\ ri' = 1
    /\ pc' = "relays"
    /\ UNCHANGED <<fvars, xvars, settings, note, now, publishMode, loadingDialog, showResultDialog,
                   messageBox, resultDialog, decoded, upload, noteContent, relayPhase,
                   netFate, relayLog>>

\* the relay the loop of line 315 works on next
RelayReady(j) ==
    pc = "relays" /\ j = ri /\ j \in 1..NRelays /\ relayPhase = "idle"

\* the loop variable after an iteration has ended
SameRelay(j) == j

NextRelay(j) == j + 1

\* line 318: Relay.connect(relayUrl) is called
RelayConnect(j, fate) ==
    /\ RelayReady(j)
    /\ relayPhase' = "connecting"
    /\ netFate' = fate
    /\ relayLog' = [relayLog EXCEPT ![j].connects = @ + 1]
    /\ UNCHANGED <<fvars, xvars, settings, note, now, pc, publishMode, loadingDialog, showResultDialog,
                   messageBox, resultDialog, decoded, upload, noteContent, signedEvent,
                   signCount, ri, successCount, errorMessages>>

\* lines 318-321: the connection is established and relay.publish(signedEvent) is called
ConnectOkResigned(j, fate) ==
    /\ pc = "relays" /\ ri = j /\ relayPhase = "connecting" /\ netFate = "settles"
    /\ relayPhase' = "publishing"
    /\ netFate' = fate
    /\ relayLog' = [relayLog EXCEPT ![j].open = TRUE, ![j].publishes = @ + 1,
                       ![j].sent = finalizeEvent(
                           EventTemplate(publishMode, note, noteContent, now), secretKey)]
    /\ UNCHANGED <<fvars, xvars, settings, note, now, pc, publishMode, loadingDialog, showResultDialog,
                   messageBox, resultDialog, decoded, upload, noteContent, signedEvent,
                   signCount, ri, successCount, errorMessages>>

ConnectOk(j, fate) ==
    /\ pc = "relays" /\ ri = j /\ relayPhase = "connecting" /\ netFate = "settles"
    /\ relayPhase' = "publishing"
    /\ netFate' = fate
    /\ relayLog' = [relayLog EXCEPT ![j].open = TRUE, ![j].publishes = @ + 1,
                                    ![j].sent = signedEvent]
    /\ UNCHANGED <<fvars, xvars, settings, note, now, pc, publishMode, loadingDialog, showResultDialog,
                   messageBox, resultDialog, decoded, upload, noteContent, signedEvent,
                   signCount, ri, successCount, errorMessages>>

\* lines 318 and 327-330: Relay.connect rejects
ConnectFailEscapes(j, msg) ==
    /\ pc = "relays" /\ ri = j /\ relayPhase = "connecting" /\ netFate = "settles"
    /\ relayPhase' = "idle"
    /\ netFate' = "none"
    /\ messageBox' = Append(messageBox, "Error importing nostr-tools")
    /\ pc' = "done"
    /\ relayLog' = [relayLog EXCEPT ![j].fail = @ + 1, ![j].err = msg]
    /\ UNCHANGED <<fvars, xvars, settings, note, now, publishMode, loadingDialog, showResultDialog,
                   resultDialog, decoded, upload, noteContent, signedEvent,
                   signCount, ri, successCount, errorMessages>>

ConnectFail(j, msg) ==
    /\ pc = "relays" /\ ri = j /\ relayPhase = "connecting" /\ netFate = "settles"
    /\ relayPhase' = "idle"
    /\ netFate' = "none"
    /\ errorMessages' = PushError(errorMessages, relays[j], msg)
    /\ ri' = NextRelay(j)
    /\ relayLog' = [relayLog EXCEPT ![j].fail = @ + 1, ![j].err = msg]
    /\ UNCHANGED <<fvars, xvars, settings, note, now, pc, publishMode, loadingDialog, showResultDialog,
                   messageBox, resultDialog, decoded, upload, noteContent, signedEvent,
                   signCount, successCount>>

\* lines 321-326: the relay acknowledges; the success is counted and the relay closed
PublishAck(j) ==
    /\ pc = "relays" /\ ri = j /\ relayPhase = "publishing" /\ netFate = "settles"
    /\ relayPhase' = "idle"
    /\ netFate' = "none"
    /\ successCount' = successCount + 1
    /\ ri' = NextRelay(j)
    /\ relayLog' = [relayLog EXCEPT ![j].succ = @ + 1, ![j].open = FALSE, ![j].closes = @ + 1]
    /\ UNCHANGED <<fvars, xvars, settings, note, now, pc, publishMode, loadingDialog, showResultDialog,
                   messageBox, resultDialog, decoded, upload, noteContent, signedEvent,
                   signCount, errorMessages>>

\* lines 321 and 327-330: relay.publish rejects; the catch block does not close the relay
PublishReject(j, msg) ==
    /\ pc = "relays" /\ ri = j /\ relayPhase = "publishing" /\ netFate = "settles"
    /\ relayPhase' = "idle"
    /\ netFate' = "none"
    /\ errorMessages' = PushError(errorMessages, relays[j], msg)
    /\ ri' = NextRelay(j)
    /\ relayLog' = [relayLog EXCEPT ![j].fail = @ + 1, ![j].err = msg]
    /\ UNCHANGED <<fvars, xvars, settings, note, now, pc, publishMode, loadingDialog, showResultDialog,
                   messageBox, resultDialog, decoded, upload, noteContent, signedEvent,
                   signCount, successCount>>

ReportAlways ==
    /\ pc = "relays" /\ ri > NRelays /\ relayPhase = "idle"
    /\ pc' = "done"
    /\ resultDialog' =
          [shown |-> TRUE, successCount |-> successCount, errors |-> errorMessages,
           headline |-> IF successCount > 0 THEN "published" ELSE "failed to publish to any relays",
           uploaded |-> Cardinality(DOMAIN upload.images)]
    /\ UNCHANGED <<fvars, xvars, settings, note, now, publishMode, loadingDialog, showResultDialog,
                   messageBox, decoded, upload, noteContent, signedEvent, signCount, ri,
                   relayPhase, netFate, successCount, errorMessages, relayLog>>

\* lines 333-383: the loop has ended; the result dialog is opened unless cancelled
Report ==
    /\ pc = "relays" /\ ri > NRelays /\ relayPhase = "idle"
    /\ pc' = "done"
    /\ resultDialog' =
          IF showResultDialog
          THEN [shown |-> TRUE, successCount |-> successCount, errors |-> errorMessages,
                headline |-> IF successCount > 0 THEN "published" ELSE "failed to publish to any relays",
                uploaded |-> Cardinality(DOMAIN upload.images)]
          ELSE NoDialog
    /\ UNCHANGED <<fvars, xvars, settings, note, now, publishMode, loadingDialog, showResultDialog,
                   messageBox, decoded, upload, noteContent, signedEvent, signCount, ri,
                   relayPhase, netFate, successCount, errorMessages, relayLog>>

\* the clock advances; it is read from the uploads on, so now = 0 stands for the
\* time at which the uploads start
Tick ==
    /\ pc \in {"uploading", "compose", "relays"}
    /\ now < MaxNow
    /\ now' = now + 1
    /\ UNCHANGED <<fvars, xvars, settings, note, pvars>>

Fates == {"settles", "never"}

Next ==
    \/ Start
    \/ \E b \in {"cancel", "regular", "longform"} : Confirm(b)
    \/ LoadingCancel
    \/ \E o \in DecodeOutcomes : Decode(o)
    \/ \E i \in 1..MaxImages, e \in BOOLEAN, f \in Fates : UploadStart(i, e, f)
    \/ \E i \in 1..MaxImages, r \in UploadResponses : UploadFinish(i, r)
    \/ UploadsDone
    \/ Sign
    \/ \E j \in 1..MaxRelays, f \in Fates : RelayConnect(j, f)
    \/ \E j \in 1..MaxRelays, f \in Fates : ConnectOk(j, f)
    \/ \E j \in 1..MaxRelays, m \in ConnectErrs : ConnectFail(j, m)
    \/ \E j \in 1..MaxRelays : PublishAck(j)
    \/ \E j \in 1..MaxRelays, m \in PublishErrs : PublishReject(j, m)
    \/ Report
    \/ Tick

Spec == Init /\ [][Next]_vars

\* The scheduling the runtime guarantees: a step of the command that is enabled is
\* eventually taken, and a library call that settles does so eventually.  The user
\* (Confirm, LoadingCancel) and the clock are not obliged to act.
Fairness ==
    /\ WF_vars(Start)
    /\ WF_vars(\E o \in DecodeOutcomes : Decode(o))
    /\ WF_vars(\E i \in 1..MaxImages, e \in BOOLEAN, f \in Fates : UploadStart(i, e, f))
    /\ WF_vars(\E i \in 1..MaxImages, r \in UploadResponses : UploadFinish(i, r))
    /\ WF_vars(UploadsDone)
    /\ WF_vars(Sign)
    /\ WF_vars(\E j \in 1..MaxRelays, f \in Fates : RelayConnect(j, f))
    /\ WF_vars(\E j \in 1..MaxRelays, f \in Fates, m \in ConnectErrs :
                  ConnectOk(j, f) \/ ConnectFail(j, m))
    /\ WF_vars(\E j \in 1..MaxRelays, m \in PublishErrs : PublishAck(j) \/ PublishReject(j, m))
    /\ WF_vars(Report)

FairSpec == Init /\ [][Next]_vars /\ Fairness

\* ------------------------------------------------------------ claims: publish

RelayIdx == 1..NRelays
Outcomes(j) == relayLog[j].succ + relayLog[j].fail

\* the failure entries of relays j.. in configured order
RECURSIVE FailedFrom(_)
FailedFrom(j) ==
    IF j > NRelays THEN <<>>
    ELSE (IF relayLog[j].fail > 0
          THEN <<[url |-> relays[j], message |-> relayLog[j].err]>> ELSE <<>>)
         \o FailedFrom(j + 1)

AllRelaysFailed == signCount > 0 /\ \A j \in RelayIdx : relayLog[j].fail > 0

\* C2: when connect or publish fails on every configured relay, there is one
\* failure entry per relay carrying that relay's message, no message box of the
\* operation-level handlers is shown, and the run ends by reporting the list.
C2_AllFailStillReported ==
    AllRelaysFailed =>
        /\ Len(errorMessages) = NRelays
        /\ \A j \in RelayIdx :
              errorMessages[j] = [url |-> relays[j], message |-> relayLog[j].err]
        /\ successCount = 0
        /\ messageBox = <<>>
        /\ pc = "done" =>
              /\ resultDialog.shown \/ loadingDialog = "cancelled"
              /\ resultDialog.shown =>
                    /\ resultDialog.errors = errorMessages
                    /\ resultDialog.headline = "failed to publish to any relays"

C2_Witness ==
    /\ AllRelaysFailed /\ NRelays = 2 /\ resultDialog.shown
    /\ relayLog[1].publishes = 0 /\ relayLog[2].publishes = 1

\* C3: a connection that was established is open only while its relay's attempt
\* is in progress: it is closed by the time the attempt has ended.
C3_ClosedAfterAttempt ==
    \A j \in RelayIdx : relayLog[j].open => (pc = "relays" /\ ri = j /\ relayPhase = "publishing")

\* C4: while the attempt on one relay is pending, the attempt on any relay that
\* has not been tried yet can start.
C4_RelaysIndependent ==
    \A i \in RelayIdx, j \in RelayIdx :
        (pc = "relays" /\ ri = i /\ relayPhase # "idle" /\ i # j /\ relayLog[j].connects = 0)
            => ENABLED (\E f \in Fates : RelayConnect(j, f))

\* C5: a connected relay that never answers the publish eventually gets a failure
\* outcome, and the run eventually ends.
C5_SilentRelayTimesOut ==
    \A j \in 1..MaxRelays :
        (pc = "relays" /\ ri = j /\ relayPhase = "publishing" /\ netFate = "never")
            ~> (pc = "done" /\ j \in RelayIdx /\ relayLog[j].fail > 0)

\* C6: within one run every configured relay is connected to at most once and
\* published to at most once, and a relay that has an outcome is not tried again.
C6_NoRetry ==
    \A j \in RelayIdx :
        /\ relayLog[j].connects <= 1
        /\ relayLog[j].publishes <= relayLog[j].connects
        /\ Outcomes(j) <= 1
        /\ Outcomes(j) = 1 => ri > j

C6_Witness ==
    /\ NRelays = 2 /\ pc = "done"
    /\ relayLog[1].fail = 1 /\ relayLog[1].publishes = 0
    /\ relayLog[2].fail = 1 /\ relayLog[2].publishes = 1

\* C7: the record is signed once; what every relay was sent is the signed record,
\* whose signature is the one computed over the fields it still has.
C7_SignedOnceSentUnchanged ==
    /\ signCount <= 1
    /\ signCount = 0 => signedEvent = NoEvent /\ \A j \in RelayIdx : relayLog[j].publishes = 0
    /\ signCount = 1 =>
          /\ signedEvent = finalizeEvent(
                 EventTemplate(publishMode, note, noteContent, signedEvent.created_at), secretKey)
          /\ \A j \in RelayIdx : relayLog[j].publishes > 0 => relayLog[j].sent = signedEvent

C7_Witness ==
    /\ NRelays = 2
    /\ relayLog[1].publishes = 1 /\ relayLog[2].publishes = 1
    /\ now > signedEvent.created_at

\* C8: the step that handles the cancel of the loading dialog changes nothing but
\* the dialog and the flag that decides whether the result is displayed.
C8_CancelOnlyHidesResult ==
    [][(loadingDialog = "open" /\ loadingDialog' = "cancelled") =>
          /\ showResultDialog' = FALSE
          /\ UNCHANGED <<fvars, xvars, settings, note, now, pc, publishMode, messageBox, resultDialog,
                         decoded, upload, noteContent, signedEvent, signCount, ri,
                         relayPhase, netFate, successCount, errorMessages, relayLog>>]_vars

C8_Witness ==
    /\ loadingDialog = "cancelled" /\ pc = "done" /\ ~resultDialog.shown
    /\ signCount = 1
    /\ Len(note.images) = 1 /\ Len(upload.attempts) = 1 /\ Len(upload.requests) = 1
    /\ NRelays = 2 /\ \A j \in RelayIdx : Outcomes(j) = 1

NoNetworkActivity ==
    /\ upload.attempts = <<>> /\ upload.requests = <<>>
    /\ signCount = 0
    /\ \A j \in RelayIdx : relayLog[j].connects = 0

InvalidInput ==
    \/ settings.nsecString.len = 0
    \/ ~settings.nsecString.prefix
    \/ settings.nsecString.len < MinNsecLen
    \/ settings.nsecString.len > MaxNsecLen
    \/ NRelays = 0
    \/ decoded = "othertype"

\* C9 as stated: with an invalid key setting or an empty relay list the command
\* shows a message and performs no upload, no signing and no relay connection.
C9_Original ==
    InvalidInput => /\ NoNetworkActivity
                    /\ pc = "done" => messageBox # <<>>

\* C9 amended: with an invalid key setting or an empty relay list the command
\* performs no upload, no signing and no relay connection, and, when a note is
\* selected, it ends by showing exactly one message.
C9_InvalidInputStaysLocal ==
    InvalidInput => /\ NoNetworkActivity
                    /\ (pc = "done" /\ note.open) => Len(messageBox) = 1
                    /\ pc \in {"start", "done"} \/ decoded = "othertype"

C9_Witness ==
    /\ pc = "done" /\ note.open
    /\ settings.nsecString.len = MaxNsecLen + 1 /\ NRelays = 1
    /\ messageBox = <<"The key length appears incorrect">>

\* ------------------------------------------------------------ fetchProfileInfo

\* profile.ts 80-84: the hardcoded relays the fetch connects to
FetchRelays == <<"wss://relay.damus.io", "wss://nos.lol", "wss://relay.nostr.band">>
FetchIdx == 1..Len(FetchRelays)
FilterKinds == {KindProfile, KindRelayList}
FilterName(k) == IF k = KindProfile THEN "profile" ELSE "relayList"

WssUrls == {"wss://x", "wss://y"}
StartsWithWss(u) == u \in WssUrls

\* the events a relay can deliver: kind, parsed content (or unparsable), tags
BadContent == [ok |-> FALSE, name |-> "", display_name |-> "", picture |-> ""]
Events ==
    { [kind |-> KindProfile, tags |-> <<>>,
       content |-> [ok |-> TRUE, name |-> "alice", display_name |-> "", picture |-> "a.png"]],
      [kind |-> KindProfile, tags |-> <<>>,
       content |-> [ok |-> TRUE, name |-> "", display_name |-> "bob", picture |-> ""]],
      [kind |-> KindProfile, tags |-> <<>>, content |-> BadContent],
      [kind |-> KindRelayList, content |-> BadContent,
       tags |-> << <<"r", "wss://x">>, <<"r", "ws://n">>, <<"p", "wss://y">>, <<"r">> >>],
      [kind |-> KindRelayList, content |-> BadContent, tags |-> << <<"r", "wss://y">> >>] }

\* a || b on strings
OrElse(a, b) == IF a # "" /\ a # Undefined THEN a ELSE b

RECURSIVE RelayUrlsOfAnyScheme(_)
RelayUrlsOfAnyScheme(tags) ==
    IF tags = <<>> THEN <<>>
    ELSE LET tag == Head(tags)
             url == IF Len(tag) >= 2 THEN tag[2] ELSE Undefined
         IN (IF Len(tag) >= 1 /\ tag[1] = "r" /\ url # "" /\ url # Undefined
             THEN <<url>> ELSE <<>>) \o RelayUrlsOfAnyScheme(Tail(tags))

\* profile.ts 197-203: the 'r' tags' second elements that start with wss://
RECURSIVE RelayUrlsOf(_)
RelayUrlsOf(tags) ==
    IF tags = <<>> THEN <<>>
    ELSE LET tag == Head(tags)
             url == IF Len(tag) >= 2 THEN tag[2] ELSE Undefined
         IN (IF Len(tag) >= 1 /\ tag[1] = "r" /\ url # "" /\ url # Undefined /\ StartsWithWss(url)
             THEN <<url>> ELSE <<>>) \o RelayUrlsOf(Tail(tags))

FetchSettings ==
    { [nsecString |-> [text |-> "nsec1a", len |-> MinNsecLen, prefix |-> TRUE],
       relaySource |-> "nip65", relayList |-> <<>>, nip65Relays |-> nr,
       enableImageUpload |-> FALSE, blossomServerUrl |-> "",
       npubDisplay |-> "npub1a", profileName |-> pn, profilePicture |-> pp] :
         <<nr, pn, pp>> \in { <<<<>>, "", "">>, <<<<"wss://old">>, "carol", "old.png">> } }

\* the state in which fetchProfileInfo is called (profile.ts 76-91)
FetchInit ==
    /\ settings \in FetchSettings
    /\ note = NoNote
    /\ now = 0
    /\ PInit
    /\ FIdle
    /\ XIdle

FStart ==
    /\ fpc = "idle"
    /\ fpc' = "connect"
    /\ fci' = 1
    /\ UNCHANGED <<settings, note, now, pvars, xvars, fconn, subs, timers, found, promise, fetched,
                   panelHtml, delivered, matched, eose, hostFault>>

\* line 98: Relay.connect(relayUrl) is called
FConnectStart(j) ==
    /\ fpc = "connect" /\ fci = j /\ j \in FetchIdx /\ ~fconn.pending
    /\ fconn' = [fconn EXCEPT !.pending = TRUE, !.attempts = Append(@, j)]
    /\ UNCHANGED <<settings, note, now, pvars, xvars, fpc, fci, subs, timers, found, promise,
                   fetched, panelHtml, delivered, matched, eose, hostFault>>

\* lines 98-99: the connection is established and kept
FConnectOk(j) ==
    /\ fpc = "connect" /\ fci = j /\ fconn.pending
    /\ fconn' = [fconn EXCEPT !.pending = FALSE, !.connections = Append(@, j),
                              !.open = @ \cup {j}]
    /\ fci' = j + 1
    /\ UNCHANGED <<settings, note, now, pvars, xvars, fpc, subs, timers, found, promise, fetched,
                   panelHtml, delivered, matched, eose, hostFault>>

\* lines 100-103: the connect fails; the loop goes on
FConnectFailGivesUp(j) ==
    /\ fpc = "connect" /\ fci = j /\ fconn.pending
    /\ fconn' = [fconn EXCEPT !.pending = FALSE]
    /\ fci' = Len(FetchRelays) + 1
    /\ UNCHANGED <<settings, note, now, pvars, xvars, fpc, subs, timers, found, promise, fetched,
                   panelHtml, delivered, matched, eose, hostFault>>

FConnectFail(j) ==
    /\ fpc = "connect" /\ fci = j /\ fconn.pending
    /\ fconn' = [fconn EXCEPT !.pending = FALSE]
    /\ fci' = j + 1
    /\ UNCHANGED <<settings, note, now, pvars, xvars, fpc, subs, timers, found, promise, fetched,
                   panelHtml, delivered, matched, eose, hostFault>>

\* line 106: the test that decides that no relay could be reached
NoConnectionsNever(conns) == FALSE

NoConnections(conns) == Len(conns) = 0

\* lines 106-113 and 288-297: no connection was made
FNoRelays ==
    /\ fpc = "connect" /\ fci > Len(FetchRelays) /\ ~fconn.pending
    /\ NoConnections(fconn.connections)
    /\ settings' = [settings EXCEPT !.profileName = "Could not connect to any relays",
                                    !.profilePicture = "", !.nip65Relays = <<>>]
    /\ panelHtml' = "Could not connect to any relays"
    /\ fconn' = [fconn EXCEPT !.closed = @ \cup {fconn.connections[i] : i \in 1..Len(fconn.connections)},
                              !.open = {}]
    /\ fpc' = "done"
    /\ UNCHANGED <<note, now, pvars, xvars, fci, subs, timers, found, promise, fetched, delivered,
                   matched, eose, hostFault>>

AllSubs == {[relay |-> fconn.connections[i], kind |-> k] :
                i \in 1..Len(fconn.connections), k \in FilterKinds}

\* lines 124-164 and 179-221: the loop that subscribes one filter on every
\* connection; a subscribe call that throws is logged and the loop goes on
SubscribedUntilFailure(conns, k, failing) ==
    {[relay |-> conns[i], kind |-> k] :
        i \in {n \in 1..Len(conns) :
                 \A h \in 1..n : [relay |-> conns[h], kind |-> k] \notin failing}}

Subscribed(conns, k, failing) ==
    {[relay |-> conns[i], kind |-> k] :
        i \in {n \in 1..Len(conns) : [relay |-> conns[n], kind |-> k] \notin failing}}

\* lines 115-230: the hard timer is armed, both filters are subscribed on every
\* connection (a subscribe that throws is skipped), the soft timers are armed
FSubscribe(failing) ==
    /\ fpc = "connect" /\ fci > Len(FetchRelays) /\ ~fconn.pending
    /\ ~NoConnections(fconn.connections)
    /\ failing \subseteq AllSubs /\ Cardinality(failing) <= 1
    /\ subs' = Subscribed(fconn.connections, KindProfile, failing)
                 \cup Subscribed(fconn.connections, KindRelayList, failing)
    /\ fconn' = [fconn EXCEPT !.subThrew = failing]
    /\ timers' = [hard |-> "armed", profile |-> "armed", relayList |-> "armed"]
    /\ promise' = [profile |-> "pending", relayList |-> "pending"]
    /\ fpc' = "waiting"
    /\ UNCHANGED <<settings, note, now, pvars, xvars, fci, found, fetched, panelHtml, delivered,
                   matched, eose, hostFault>>

RaceSettledByPromises ==
    /\ fpc = "waiting"
    /\ promise.profile # "pending" /\ promise.relayList # "pending"

\* line 234: the race has an outcome, so the continuation at line 242 runs next
RaceSettled ==
    /\ fpc = "waiting"
    /\ \/ promise.profile # "pending" /\ promise.relayList # "pending"
       \/ timers.hard = "fired"

\* the positions at which callbacks of relays and timers can run: the awaits of
\* lines 234-281 and of the catch block
Awaiting == fpc \in {"waiting", "writePicture", "writePanel", "writeRelays", "close",
                     "closeRethrow"}

Resolve(p, v) == IF p = "pending" THEN v ELSE p

\* lines 146-147
ProfileNameOf(content) == OrElse(content.name, OrElse(content.display_name, ""))
ProfilePictureOf(content) == OrElse(content.picture, "")

\* lines 136-154: onevent of a profile subscription
OnProfileEventLastWins(ev) ==
    IF ev.kind = KindProfile
    THEN /\ found' = [found EXCEPT !.profile = TRUE]
         /\ IF ev.content.ok
            THEN /\ fetched' = [fetched EXCEPT
                        !.profileName = ProfileNameOf(ev.content),
                        !.profilePicture = ProfilePictureOf(ev.content)]
                 /\ promise' = [promise EXCEPT !.profile = Resolve(@, "true")]
            ELSE UNCHANGED <<fetched, promise>>
    ELSE UNCHANGED <<found, fetched, promise>>

OnProfileEvent(ev) ==
    IF ev.kind = KindProfile /\ ~found.profile
    THEN /\ found' = [found EXCEPT !.profile = TRUE]
         /\ IF ev.content.ok
            THEN /\ fetched' = [fetched EXCEPT
                        !.profileName = ProfileNameOf(ev.content),
                        !.profilePicture = ProfilePictureOf(ev.content)]
                 /\ promise' = [promise EXCEPT !.profile = Resolve(@, "true")]
            ELSE UNCHANGED <<fetched, promise>>
    ELSE UNCHANGED <<found, fetched, promise>>

\* lines 191-211: onevent of a relay list subscription
OnRelayListEvent(ev) ==
    IF ev.kind = KindRelayList /\ ~found.relayList
    THEN /\ found' = [found EXCEPT !.relayList = TRUE]
         /\ fetched' = [fetched EXCEPT !.nip65RelayList = RelayUrlsOf(ev.tags)]
         /\ promise' = [promise EXCEPT !.relayList = Resolve(@, "true")]
    ELSE UNCHANGED <<found, fetched, promise>>

\* a relay delivers an event on one of its subscriptions
FEvent(sub, ev) ==
    /\ Awaiting
    /\ ~RaceSettled
    /\ sub \in subs /\ sub.relay \in fconn.open
    /\ delivered < MaxEvents
    /\ delivered' = delivered + 1
    /\ matched' = IF ev.kind = sub.kind
                  THEN [matched EXCEPT ![FilterName(sub.kind)] = Append(@, ev)]
                  ELSE matched
    /\ IF sub.kind = KindProfile THEN OnProfileEvent(ev) ELSE OnRelayListEvent(ev)
    /\ UNCHANGED <<settings, note, now, pvars, xvars, fpc, fci, fconn, subs, timers, panelHtml,
                   eose, hostFault>>

\* lines 155-159 and 212-216: oneose only writes to the console
OnEoseResolves(k) ==
    /\ promise' = [promise EXCEPT ![FilterName(k)] =
                      IF found[FilterName(k)] THEN @ ELSE Resolve(@, "false")]
    /\ UNCHANGED <<found, fetched>>

OnEose(k) == UNCHANGED <<found, fetched, promise>>

\* a relay signals the end of the stored events of one subscription
FEose(sub) ==
    /\ Awaiting
    /\ ~RaceSettled
    /\ sub \in subs /\ sub.relay \in fconn.open
    /\ sub \notin eose
    /\ delivered < MaxEvents
    /\ delivered' = delivered + 1
    /\ eose' = eose \cup {sub}
    /\ OnEose(sub.kind)
    /\ UNCHANGED <<settings, note, now, pvars, xvars, fpc, fci, fconn, subs, timers, panelHtml,
                   matched, hostFault>>

\* lines 167-172 and 224-229: the callback of a soft timer
OnSoftTimeoutSilent(k) == UNCHANGED promise

OnSoftTimeout(k) ==
    promise' = IF ~found[FilterName(k)]
               THEN [promise EXCEPT ![FilterName(k)] = Resolve(@, "false")]
               ELSE promise

\* a soft timer fires (the profile timer is armed first)
FSoftTimeout(k) ==
    /\ Awaiting
    /\ ~RaceSettled
    /\ k \in FilterKinds
    /\ timers[FilterName(k)] = "armed"
    /\ k = KindRelayList => timers.profile = "fired"
    /\ timers' = [timers EXCEPT ![FilterName(k)] = "fired"]
    /\ OnSoftTimeout(k)
    /\ UNCHANGED <<settings, note, now, pvars, xvars, fpc, fci, fconn, subs, found, fetched,
                   panelHtml, delivered, matched, eose, hostFault>>

\* the first k writes of the catch block, lines 283-286
CatchWrites(st, k) ==
    [st EXCEPT !.profileName = IF k >= 1 THEN "Error fetching profile" ELSE @,
               !.profilePicture = IF k >= 2 THEN "" ELSE @,
               !.nip65Relays = IF k >= 3 THEN <<>> ELSE @]

CatchPanel(panel, k) == IF k >= 4 THEN "Error fetching profile" ELSE panel

\* lines 116-118 and 233-240: the hard timer fires, after both soft timers; the
\* rejection it causes is caught at line 238
FHardTimeoutEscapes ==
    /\ Awaiting
    /\ ~RaceSettled
    /\ timers.hard = "armed"
    /\ timers.profile = "fired" /\ timers.relayList = "fired"
    /\ timers' = [timers EXCEPT !.hard = "fired"]
    /\ settings' = IF fpc = "waiting" THEN CatchWrites(settings, 4) ELSE settings
    /\ panelHtml' = IF fpc = "waiting" THEN CatchPanel(panelHtml, 4) ELSE panelHtml
    /\ fpc' = IF fpc = "waiting" THEN "close" ELSE fpc
    /\ UNCHANGED <<note, now, pvars, xvars, fci, fconn, subs, found, promise, fetched,
                   delivered, matched, eose, hostFault>>

FHardTimeout ==
    /\ Awaiting
    /\ ~RaceSettled
    /\ timers.hard = "armed"
    /\ timers.profile = "fired" /\ timers.relayList = "fired"
    /\ timers' = [timers EXCEPT !.hard = "fired"]
    /\ UNCHANGED <<settings, note, now, pvars, xvars, fpc, fci, fconn, subs, found, promise, fetched,
                   panelHtml, delivered, matched, eose, hostFault>>

\* line 243
FWriteName ==
    /\ RaceSettled
    /\ settings' = [settings EXCEPT !.profileName = OrElse(fetched.profileName, "No profile found")]
    /\ fpc' = "writePicture"
    /\ UNCHANGED <<note, now, pvars, xvars, fci, fconn, subs, timers, found, promise, fetched,
                   panelHtml, delivered, matched, eose, hostFault>>

\* line 244
FWritePicture ==
    /\ fpc = "writePicture"
    /\ settings' = [settings EXCEPT !.profilePicture = OrElse(fetched.profilePicture, "")]
    /\ fpc' = "writePanel"
    /\ UNCHANGED <<note, now, pvars, xvars, fci, fconn, subs, timers, found, promise, fetched,
                   panelHtml, delivered, matched, eose, hostFault>>

\* lines 246-275
FWritePanel ==
    /\ fpc = "writePanel"
    /\ panelHtml' = [picture |-> fetched.profilePicture,
                     name |-> OrElse(fetched.profileName, "Anonymous")]
    /\ fpc' = "writeRelays"
    /\ UNCHANGED <<settings, note, now, pvars, xvars, fci, fconn, subs, timers, found, promise,
                   fetched, delivered, matched, eose, hostFault>>

\* lines 277-281
FWriteRelays ==
    /\ fpc = "writeRelays"
    /\ settings' = [settings EXCEPT !.nip65Relays = fetched.nip65RelayList]
    /\ fpc' = "close"
    /\ UNCHANGED <<note, now, pvars, xvars, fci, fconn, subs, timers, found, promise, fetched,
                   panelHtml, delivered, matched, eose, hostFault>>

\* lines 242-287: the host rejects the next write of the results; the catch
\* block writes the error outcome, of which the host accepts the first k writes
FWriteFault(k) ==
    /\ RaceSettled \/ fpc \in {"writePicture", "writePanel", "writeRelays"}
    /\ k \in 0..4
    /\ hostFault' = TRUE
    /\ settings' = CatchWrites(settings, k)
    /\ panelHtml' = CatchPanel(panelHtml, k)
    /\ fpc' = IF k = 4 THEN "close" ELSE "closeRethrow"
    /\ UNCHANGED <<note, now, pvars, xvars, fci, fconn, subs, timers, found, promise, fetched,
                   delivered, matched, eose>>

\* the first m writes of lines 108-111
NoRelaysWrites(st, m) ==
    [st EXCEPT !.profileName = IF m >= 1 THEN "Could not connect to any relays" ELSE @,
               !.profilePicture = IF m >= 2 THEN "" ELSE @,
               !.nip65Relays = IF m >= 3 THEN <<>> ELSE @]

\* lines 106-111 and 282-287: no connection was made and the host rejects the
\* write after the first m; the catch block follows
FNoRelaysFault(m, k) ==
    /\ fpc = "connect" /\ fci > Len(FetchRelays) /\ ~fconn.pending
    /\ NoConnections(fconn.connections)
    /\ m \in 0..3 /\ k \in 0..4
    /\ hostFault' = TRUE
    /\ settings' = CatchWrites(NoRelaysWrites(settings, m), k)
    /\ panelHtml' = CatchPanel(panelHtml, k)
    /\ fpc' = IF k = 4 THEN "close" ELSE "closeRethrow"
    /\ UNCHANGED <<note, now, pvars, xvars, fci, fconn, subs, timers, found, promise, fetched,
                   delivered, matched, eose>>

\* lines 288-297: the connections that are closed when close() throws on the
\* connections in failing
ClosedUntilFailure(conns, failing) ==
    {conns[i] : i \in {n \in 1..Len(conns) : \A h \in 1..n : conns[h] \notin failing}}

Closed(conns, failing) ==
    {conns[i] : i \in {n \in 1..Len(conns) : conns[n] \notin failing}}

\* lines 288-297: close() is called on every connection; after the finally
\* block the function returns, or the error of the catch block propagates
FClose(failing) ==
    /\ fpc \in {"close", "closeRethrow"}
    /\ failing \subseteq {fconn.connections[i] : i \in 1..Len(fconn.connections)}
    /\ Cardinality(failing) <= 1
    /\ fconn' = [fconn EXCEPT !.closed = Closed(fconn.connections, failing),
                              !.closeThrew = failing,
                              !.open = @ \ Closed(fconn.connections, failing)]
    /\ fpc' = IF fpc = "close" THEN "done" ELSE "threw"
    /\ UNCHANGED <<settings, note, now, pvars, xvars, fci, subs, timers, found, promise, fetched,
                   panelHtml, delivered, matched, eose, hostFault>>

FetchNext ==
    \/ FStart
    \/ \E j \in FetchIdx : FConnectStart(j)
    \/ \E j \in FetchIdx : FConnectOk(j)
    \/ \E j \in FetchIdx : FConnectFail(j)
    \/ FNoRelays
    \/ \E f \in SUBSET [relay : FetchIdx, kind : FilterKinds] : FSubscribe(f)
    \/ \E sub \in [relay : FetchIdx, kind : FilterKinds], ev \in Events : FEvent(sub, ev)
    \/ \E sub \in [relay : FetchIdx, kind : FilterKinds] : FEose(sub)
    \/ \E k \in FilterKinds : FSoftTimeout(k)
    \/ FHardTimeout
    \/ FWriteName
    \/ FWritePicture
    \/ FWritePanel
    \/ FWriteRelays
    \/ \E f \in SUBSET FetchIdx : FClose(f)

FetchSpec == FetchInit /\ [][FetchNext]_vars

\* What the runtime guarantees to a fetch: a continuation that can run does run,
\* a timer that is armed fires, and the host settles the writes.  The relays are
\* not obliged to deliver anything.  Each condition is on the variable its
\* action always changes.
FetchFairness ==
    /\ WF_fpc(\E f \in SUBSET [relay : FetchIdx, kind : FilterKinds] : FSubscribe(f))
    /\ WF_timers(\E k \in FilterKinds : FSoftTimeout(k))
    /\ WF_timers(FHardTimeout)
    /\ WF_fpc(FWriteName)
    /\ WF_fpc(FWritePicture)
    /\ WF_fpc(FWritePanel)
    /\ WF_fpc(FWriteRelays)
    /\ WF_fpc(\E f \in SUBSET FetchIdx : FClose(f))

FetchFairSpec == FetchInit /\ [][FetchNext]_vars /\ FetchFairness

\* the fetch with a host whose writes may be rejected
FetchFaultNext ==
    \/ FetchNext
    \/ \E k \in 0..4 : FWriteFault(k)
    \/ \E m \in 0..3, k \in 0..4 : FNoRelaysFault(m, k)

FetchFaultSpec == FetchInit /\ [][FetchFaultNext]_vars

\* ------------------------------------------------------------ claims: fetch

AllConnectsFailed == fpc # "idle" /\ fci > Len(FetchRelays) /\ fconn.connections = <<>>

\* C10: when the connection to every fetch relay has failed, the fetch ends in
\* the outcome 'Could not connect to any relays', with no subscription opened,
\* no timer armed, and profilePicture and nip65Relays cleared.
C10_NoReachableEndpoints ==
    AllConnectsFailed =>
        /\ subs = {}
        /\ timers = [hard |-> "unset", profile |-> "unset", relayList |-> "unset"]
        /\ fpc \in {"connect", "done"}
        /\ fconn.attempts = <<1, 2, 3>>
        /\ fpc = "done" =>
              /\ settings.profileName = "Could not connect to any relays"
              /\ panelHtml = "Could not connect to any relays"
              /\ settings.profilePicture = ""
              /\ settings.nip65Relays = <<>>

C10_Witness ==
    /\ AllConnectsFailed /\ fpc = "done"
    /\ settings.profileName = "Could not connect to any relays"

Filters == {"profile", "relayList"}

\* the events of a filter's kind delivered so far whose content parses
ValidMatches(f) ==
    IF f = "profile" THEN SelectSeq(matched.profile, LAMBDA ev : ev.content.ok)
    ELSE matched.relayList

\* C11: for each filter the adopted values are those of the first event of the
\* filter's kind that was delivered, whichever relay delivered it; events of
\* that kind delivered later leave them as they are (when the first event's
\* content does not parse, nothing is adopted from it).
C11_FirstMatchWins ==
    /\ found.profile = (matched.profile # <<>>)
    /\ found.relayList = (matched.relayList # <<>>)
    /\ IF matched.profile # <<>> /\ Head(matched.profile).content.ok
       THEN /\ fetched.profileName = ProfileNameOf(Head(matched.profile).content)
            /\ fetched.profilePicture = ProfilePictureOf(Head(matched.profile).content)
       ELSE fetched.profileName = "" /\ fetched.profilePicture = ""
    /\ fetched.nip65RelayList =
          IF matched.relayList # <<>> THEN RelayUrlsOf(Head(matched.relayList).tags) ELSE <<>>

C11_Witness ==
    /\ Len(matched.profile) = 2
    /\ Head(matched.profile).content.ok /\ matched.profile[2].content.ok
    /\ ProfileNameOf(matched.profile[2].content) # ProfileNameOf(Head(matched.profile).content)
    /\ fetched.profileName = "alice"
    /\ fpc = "done" /\ settings.profileName = "alice" /\ settings.profilePicture = "a.png"

\* C12: a kind-0 event whose content does not parse is treated as not matching:
\* it neither resolves the profile filter nor takes the first-match slot, so
\* the adopted profile is that of the first delivered kind-0 event whose
\* content parses.
C12_MalformedDoesNotConsume ==
    LET valid == ValidMatches("profile") IN
    /\ valid = <<>> => promise.profile # "true" /\ fetched.profileName = ""
    /\ valid # <<>> =>
          /\ fetched.profileName = ProfileNameOf(Head(valid).content)
          /\ fetched.profilePicture = ProfilePictureOf(Head(valid).content)

Connections == {fconn.connections[i] : i \in 1..Len(fconn.connections)}

\* C13: when the fetch has ended, by returning or by throwing, on whichever
\* path (both filters resolved, hard timer fired, a host write rejected), every
\* connection it opened is closed, except those whose own close() threw; no
\* connection is closed before the end.
C13_AllConnectionsClosed ==
    /\ fpc \in {"done", "threw"} =>
          /\ fconn.closed \cup fconn.closeThrew = Connections
          /\ fconn.closed \cap fconn.closeThrew = {}
          /\ fconn.open = fconn.closeThrew
    /\ fpc \notin {"done", "threw"} =>
          /\ fconn.closed = {}
          /\ fconn.open = Connections

C13_Witness ==
    /\ fpc = "done" /\ hostFault
    /\ settings.profileName = "Error fetching profile"
    /\ timers.hard = "fired"
    /\ fconn.connections = <<1, 2, 3>>
    /\ fconn.closeThrew = {1} /\ fconn.closed = {2, 3}

Subscribing == promise.profile # "none"

\* C14: while no event of a filter's kind has been delivered, the filter is
\* never resolved as found, and it is resolved as not found exactly when its
\* own soft timer has fired: not before, and from then on.
C14_NotFoundOnlyAtSoftDeadline ==
    \A k \in FilterKinds :
        (Subscribing /\ matched[FilterName(k)] = <<>>) =>
            /\ promise[FilterName(k)] # "true"
            /\ (promise[FilterName(k)] = "false") = (timers[FilterName(k)] = "fired")

C14_Witness ==
    /\ matched.profile = <<>> /\ matched.relayList # <<>>
    /\ promise.profile = "false" /\ timers.profile = "fired"
    /\ timers.relayList = "armed" /\ timers.hard = "armed"
    /\ fpc = "done" /\ settings.profileName = "No profile found"
    /\ [relay |-> 1, kind |-> KindProfile] \in subs

\* the catch block of lines 282-287 was entered and wrote, or its error escaped
ErrorOutcome ==
    \/ fpc \in {"closeRethrow", "threw"}
    \/ settings.profileName = "Error fetching profile"

HardDeadlineWhilePending ==
    timers.hard = "fired" /\ \E f \in Filters : promise[f] = "pending"

\* C15: when the hard timer fires while a filter is still pending and the host
\* accepts the writes, the fetch does not end in the error outcome: it returns
\* with each still-pending filter reported as not found ('No profile found',
\* empty relay list) and with the relay list of a filter resolved as found.
C15_HardDeadlineIsNotAnError ==
    (HardDeadlineWhilePending /\ ~hostFault) =>
        /\ ~ErrorOutcome
        /\ fpc = "done" =>
              /\ promise.profile = "pending" =>
                    settings.profileName = "No profile found" /\ settings.profilePicture = ""
                    /\ panelHtml.name = "Anonymous"
              /\ promise.relayList = "pending" => settings.nip65Relays = <<>>
              /\ promise.profile = "true" =>
                    settings.profileName = ProfileNameOf(Head(ValidMatches("profile")).content)
              /\ promise.relayList = "true" =>
                    settings.nip65Relays = RelayUrlsOf(Head(matched.relayList).tags)

C15_Witness ==
    /\ HardDeadlineWhilePending /\ ~hostFault /\ fpc = "done"
    /\ promise.profile = "pending" /\ settings.profileName = "No profile found"
    /\ promise.relayList = "true" /\ settings.nip65Relays = <<"wss://x">>

Resolved(f) == promise[f] \in {"true", "false"}

\* C16: once a filter is resolved, as found or as not found by its soft timer,
\* an event delivered afterwards does not change the values fetched for that
\* filter, so that the name written to the settings and the name shown in the
\* panel are the same name.
C16_ResolvedValuesAreFinal ==
    /\ [][/\ Resolved("profile") =>
                /\ fetched.profileName' = fetched.profileName
                /\ fetched.profilePicture' = fetched.profilePicture
          /\ Resolved("relayList") => fetched.nip65RelayList' = fetched.nip65RelayList]_vars
    /\ [](fpc = "done" /\ Subscribing =>
            panelHtml.name = IF settings.profileName = "No profile found" THEN "Anonymous"
                             ELSE settings.profileName)

SubsOf(k) == {sub \in AllSubs : sub.kind = k /\ sub \notin fconn.subThrew}

\* C17: the step in which a relay signals the end of its stored events leaves
\* both filters as they were, also when it is the last relay to signal it; a
\* filter is resolved as found only when an event of its kind was delivered,
\* and as not found only when its soft timer has fired.
C17_EoseNeverResolves ==
    /\ [][eose' # eose => UNCHANGED <<promise, found, fetched, fpc, timers>>]_vars
    /\ [](\A k \in FilterKinds :
            /\ promise[FilterName(k)] = "true" => ValidMatches(FilterName(k)) # <<>>
            /\ promise[FilterName(k)] = "false" => timers[FilterName(k)] = "fired")

C17_Witness ==
    /\ Len(fconn.connections) = 2
    /\ Cardinality(SubsOf(KindProfile)) = 2 /\ SubsOf(KindProfile) \subseteq eose
    /\ matched.profile = <<>>
    /\ promise.profile = "pending" /\ timers.profile = "armed"

\* C18: the fetch calls connect on the hardcoded relays in their order, each
\* once, whether the earlier calls failed or not; it has called it on all of
\* them before it subscribes, and before it reports 'Could not connect to any
\* relays'.
C18_EveryRelayAttemptedOnce ==
    /\ Len(fconn.attempts) <= Len(FetchRelays)
    /\ \A i \in 1..Len(fconn.attempts) : fconn.attempts[i] = i
    /\ fpc \notin {"idle", "connect"} => Len(fconn.attempts) = Len(FetchRelays)
    /\ settings.profileName = "Could not connect to any relays" =>
          Len(fconn.attempts) = Len(FetchRelays)
    /\ Connections \subseteq {fconn.attempts[i] : i \in 1..Len(fconn.attempts)}

C18_Witness ==
    /\ fconn.attempts = <<1, 2, 3>>
    /\ fconn.connections = <<3>>
    /\ fpc = "waiting" /\ subs # {}

FailedConnects == {fconn.attempts[i] : i \in 1..Len(fconn.attempts)} \ Connections

\* C19: a relay whose connect failed, or a subscribe call that threw, costs
\* only itself: once the fetch has subscribed, every connected relay carries a
\* subscription for each of the two filters except the one call that threw,
\* and the fetch ends in the error outcome only when a host write was rejected.
C19_EndpointFailuresAreLocal ==
    /\ (Subscribing /\ fpc # "connect") =>
          /\ \A sub \in AllSubs : sub \in subs \/ sub \in fconn.subThrew
          /\ subs \cap fconn.subThrew = {}
    /\ ErrorOutcome => hostFault

C19_Witness ==
    /\ FailedConnects = {2} /\ fconn.connections = <<1, 3>>
    /\ fconn.subThrew = {[relay |-> 1, kind |-> KindProfile]}
    /\ subs = {[relay |-> 1, kind |-> KindRelayList], [relay |-> 3, kind |-> KindProfile],
               [relay |-> 3, kind |-> KindRelayList]}
    /\ fpc = "done" /\ ~hostFault
    /\ settings.profileName = "alice" /\ settings.nip65Relays = <<"wss://y">>

\* ------------------------------------------------------------ claims: upload

\* C20: uploadImages takes the paths in list order, one at a time: the calls
\* made so far are a prefix of the note's image list, all but possibly the
\* last have returned their result, a PUT request is outstanding only for that
\* last one, and once uploadImages has returned every path has a result,
\* failed or not.
C20_UploadsSequential ==
    LET n == Len(upload.attempts) IN
    /\ n <= Len(note.images)
    /\ \A i \in 1..n : upload.attempts[i] = note.images[i]
    /\ Len(upload.results) = IF upload.inflight THEN n - 1 ELSE n
    /\ \A i \in 1..Len(upload.results) : upload.results[i].originalPath = note.images[i]
    /\ pc = "uploading" => upload.idx = Len(upload.results) + 1
    /\ (pc = "compose" \/ signCount > 0) /\ UploadsWanted =>
          ~upload.inflight /\ Len(upload.results) = Len(note.images)

C20_Witness ==
    /\ note.images = <<"/a.png", "/b.png">>
    /\ Len(upload.results) = 2 /\ Len(upload.requests) = 2
    /\ ~upload.results[1].success /\ upload.results[2].success
    /\ DOMAIN upload.images = {"/b.png"}
    /\ signCount = 1

Successes == {i \in 1..Len(upload.results) :
                 upload.results[i].success /\ upload.results[i].url # ""}

\* C21: the map built by uploadImages has a key for a path exactly when a call
\* for that path returned success with a non-empty URL, and the value under a
\* key is the URL of the last such call for it; paths whose calls all failed
\* have no key.
C21_MapHoldsSuccessesOnly ==
    /\ DOMAIN upload.images = {upload.results[i].originalPath : i \in Successes}
    /\ \A p \in DOMAIN upload.images :
          \E i \in Successes :
              /\ upload.results[i].originalPath = p
              /\ upload.images[p] = upload.results[i].url
              /\ \A j \in Successes : j > i => upload.results[j].originalPath # p

C21_Witness ==
    /\ note.images = <<"/a.png", "/b.png">>
    /\ Len(upload.results) = 2
    /\ upload.results[1].success /\ upload.results[1].url = "https://h/2"
    /\ ~upload.results[2].success
    /\ upload.images = ("/a.png" :> "https://h/2")
    /\ pc = "done"

\* ------------------------------------------------------- uploadImageToBlossom

\* the bytes a file can hold, and crypto.createHash('sha256') of them
FileContents == {"bytes1", "bytes2", "nobytes"}
Sha256(bytes) == <<"sha256", bytes>>

Basename(path) == <<"basename", path>>
NumberToString(n) == <<"string", n>>
Base64Json(ev) == <<"base64", <<"json", ev>> >>

\* imageUploader.ts 83-99: the signed authorization event of an upload
AuthEventLongLived(hash, filename, t, sk) ==
    finalizeEvent([kind |-> KindBlossomAuth, created_at |-> t,
                   tags |-> << <<"t", "upload">>, <<"x", hash>>,
                               <<"expiration", NumberToString(t + 12 * AuthLifetime)>> >>,
                   content |-> <<"Upload ", filename>>], sk)

AuthEvent(hash, filename, t, sk) ==
    finalizeEvent([kind |-> KindBlossomAuth, created_at |-> t,
                   tags |-> << <<"t", "upload">>, <<"x", hash>>,
                               <<"expiration", NumberToString(t + AuthLifetime)>> >>,
                   content |-> <<"Upload ", filename>>], sk)

\* lines 70-142: the PUT request for a file
UploadRequest(server, path, bytes, t, sk) ==
    [method |-> "PUT",
     url |-> <<server, "/", Sha256(bytes)>>,
     authorization |-> <<"Nostr ", Base64Json(AuthEvent(Sha256(bytes), Basename(path), t, sk))>>,
     body |-> bytes]

\* the result object of a call, with its error property
UploadedImage(res, err) ==
    [originalPath |-> res.originalPath, url |-> res.url, success |-> res.success, error |-> err]

\* lines 58 and 169-177: whatever is thrown in the body is caught
EscapesWhenThrown(err) == err # NoError

Escapes(err) == FALSE

NoResponse == [transport |-> "none"]
NoResult == [originalPath |-> "", url |-> "", success |-> FALSE, error |-> NoError]

\* a call uploadImageToBlossom(path, server, sk), before its first line
UploadCalls ==
    [pc : {"called"}, path : ImagePaths, exists : BOOLEAN, bytes : FileContents,
     server : {"https://blossom"}, sk : {<<"sk", "nsec1a">>},
     requests : {<<>>}, response : {NoResponse}, result : {NoResult}, threw : {FALSE}]

UploadCallInit ==
    /\ settings \in {st \in FetchSettings : st.profileName = ""}
    /\ note = NoNote
    /\ now \in 0..MaxNow
    /\ PInit
    /\ FIdle
    /\ rw = [pc |-> "idle"]
    /\ ud = [runs |-> <<>>, overlapped |-> FALSE]
    /\ uc \in UploadCalls

\* lines 60-67: the file does not exist
UCallMissing ==
    /\ uc.pc = "called" /\ ~uc.exists
    /\ uc' = [uc EXCEPT !.pc = "done",
                        !.result = UploadedImage(FileNotFound(uc.path),
                                                 <<"File not found: ", uc.path>>)]
    /\ UNCHANGED <<settings, note, now, pvars, fvars, rw, ud>>

\* lines 69-142: the file is read and hashed, the authorization is signed, the
\* request is sent
UCallSend ==
    /\ uc.pc = "called" /\ uc.exists
    /\ uc' = [uc EXCEPT !.pc = "sending",
                        !.requests = Append(@, UploadRequest(uc.server, uc.path, uc.bytes,
                                                             now, uc.sk))]
    /\ UNCHANGED <<settings, note, now, pvars, fvars, rw, ud>>

\* lines 142-177: fetch settles; the function returns a result
UCallRespondRetries(resp) ==
    /\ uc.pc = "sending"
    /\ Len(uc.requests) < 2
    /\ uc' = [uc EXCEPT !.pc = IF UploadResult(uc.path, resp).success THEN "done" ELSE "called",
                        !.response = resp,
                        !.result = UploadedImage(UploadResult(uc.path, resp),
                                                 UploadError(uc.path, resp)),
                        !.threw = Escapes(UploadError(uc.path, resp))]
    /\ UNCHANGED <<settings, note, now, pvars, fvars, rw, ud>>

UCallRespond(resp) ==
    /\ uc.pc = "sending"
    /\ uc' = [uc EXCEPT !.pc = "done",
                        !.response = resp,
                        !.result = UploadedImage(UploadResult(uc.path, resp),
                                                 UploadError(uc.path, resp)),
                        !.threw = Escapes(UploadError(uc.path, resp))]
    /\ UNCHANGED <<settings, note, now, pvars, fvars, rw, ud>>

UploadCallNext ==
    \/ UCallMissing
    \/ UCallSend
    \/ \E resp \in UploadResponses : UCallRespond(resp)

UploadCallSpec == UploadCallInit /\ [][UploadCallNext]_vars

\* ----------------------------------------------- claims: uploadImageToBlossom

BodyAccepted(resp) ==
    /\ resp.parseable
    /\ Truthy(resp.url)
    /\ resp.status \in {"success", Undefined}

\* C22: a call that sent its request returns success exactly when the response
\* status is a success and the body is {status: "success", url: u} or {url: u}
\* without a status, and then with that u; every other body, also one with a
\* url and another status, gives a failure.
C22_AcceptedShapes ==
    uc.pc = "done" /\ uc.exists =>
        /\ uc.result.success =
              (uc.response.transport = "ok" /\ uc.response.httpOk /\ BodyAccepted(uc.response))
        /\ uc.result.success => uc.result.url = uc.response.url

Mentions(err, v) == \E i \in 1..Len(err) : err[i] = v

TagsOf(ev) == {ev.tags[i] : i \in 1..Len(ev.tags)}

\* the authorization event that a request carries in its header
AuthOf(req) == req.authorization[2][2][2]

\* C25: in every request sent, the hash at the end of the URL and the hash of
\* the authorization event's 'x' tag are both the hash of the bytes of the
\* body, which are the file's bytes; the authorization event has kind 24242,
\* a ['t', 'upload'] tag and an expiration tag of its created_at plus 300.
C25_RequestMatchesPayload ==
    \A i \in 1..Len(uc.requests) :
        LET req == uc.requests[i]
            auth == AuthOf(req)
        IN /\ req.body = uc.bytes
           /\ req.url = <<uc.server, "/", Sha256(req.body)>>
           /\ {tag \in TagsOf(auth) : tag[1] = "x"} = {<<"x", Sha256(req.body)>>}
           /\ auth.kind = KindBlossomAuth
           /\ <<"t", "upload">> \in TagsOf(auth)
           /\ {tag \in TagsOf(auth) : tag[1] = "expiration"} =
                 {<<"expiration", NumberToString(auth.created_at + AuthLifetime)>>}
           /\ auth.created_at = now

C25_Witness ==
    /\ Len(uc.requests) = 1 /\ uc.pc = "done" /\ uc.result.success
    /\ uc.bytes = "bytes2" /\ now = 1
    /\ <<"expiration", NumberToString(1 + AuthLifetime)>> \in TagsOf(AuthOf(uc.requests[1]))

\* the images the PUT requests of this run have been answered for with success
UploadedSoFar ==
    [p \in {upload.results[i].originalPath : i \in Successes} |->
        upload.results[CHOOSE i \in Successes :
            /\ upload.results[i].originalPath = p
            /\ \A k \in Successes : upload.results[k].originalPath = p => k <= i].url]

RelayTouched == \E j \in 1..NRelays : relayLog[j].connects > 0 \/ relayLog[j].publishes > 0

\* C26: in a publish run every upload has returned before the event is
\* composed and signed, and no relay is connected to or published to before
\* the signature: while uploads are running nothing is signed and no relay is
\* touched; once the event is composed no upload is outstanding and each image
\* has its result; the signed event is the template over the rewritten content,
\* which names exactly the successful uploads, or is the unmodified body when
\* none succeeded.
C26_UploadsThenSignThenRelays ==
    /\ pc = "uploading" => signCount = 0 /\ signedEvent = NoEvent
    /\ signCount = 0 => ~RelayTouched
    /\ (pc = "compose" \/ signCount > 0) /\ UploadsWanted =>
          /\ ~upload.inflight
          /\ Len(upload.results) = Len(note.images)
          /\ noteContent = [body |-> "body", replaced |-> UploadedSoFar]
    /\ (pc = "compose" \/ signCount > 0) /\ ~UploadsWanted =>
          /\ upload.attempts = <<>>
          /\ noteContent = [body |-> "body", replaced |-> NoImages]
    /\ signCount > 0 =>
          signedEvent = finalizeEvent(EventTemplate(publishMode, note, noteContent, signedEvent.created_at),
                                      secretKey)

C26_Witness ==
    /\ note.images = <<"/a.png", "/b.png">>
    /\ signCount = 1
    /\ DOMAIN noteContent.replaced = {"/a.png"}
    /\ signedEvent.kind = KindNote
    /\ signedEvent.content[3] = noteContent
    /\ NRelays = 1
    /\ relayLog[1].publishes = 1

\* ------------------------------------------------------------ content rewriting
\* replaceResourceUrls and extractResourceIds (unnamed/part_000),
\* replaceImageUrls and extractLocalImagePaths (imageUploader.ts).
\*
\* A text is a sequence of lexical units.  "![", "[", "](" and ")" are the
\* markdown delimiters, ":/m" and ":/u" the targets of the resources m and u,
\* "file://" the scheme of a local image, "/", "a" and "%2F" the units a path
\* is written with, "nl" a newline, "sp" a blank, "x" any other character and
\* "U1", "U2" the text of an uploaded URL.  The regular expressions are
\* evaluated as the JavaScript engine does: leftmost match, lazy .*? that does
\* not cross a newline, greedy \s* that does, and a global replace that goes on
\* after the end of each match.

ResourceIds == {"m", "u"}

RefToken(id) == IF id = "m" THEN ":/m" ELSE ":/u"

\* \s
IsSpace(c) == c \in {"sp", "nl"}

RECURSIVE SkipSpace(_, _)
\* \s* from position i: the first position that holds no white space
SkipSpace(t, i) ==
    IF i <= Len(t) /\ IsSpace(t[i]) THEN SkipSpace(t, i + 1) ELSE i

\* (.*?) between positions i and j: no newline
NoNewline(t, i, j) == \A k \in (i + 1)..(j - 1) : t[k] # "nl"

Min(S) == CHOOSE x \in S : \A y \in S : x <= y

\* the positions of "](" at which !\[(.*?)\]\(\s*:\/ID\s*\) matches from i
ResourceCloses(t, i, id) ==
    {j \in (i + 1)..Len(t) :
        /\ t[j] = "]("
        /\ NoNewline(t, i, j)
        /\ LET a == SkipSpace(t, j + 1) IN
           /\ a <= Len(t)
           /\ t[a] = RefToken(id)
           /\ LET b == SkipSpace(t, a + 1) IN b <= Len(t) /\ t[b] = ")"}

\* the position of the ")" that ends the reference whose "](" is at j
CloseParen(t, j) == SkipSpace(t, SkipSpace(t, j + 1) + 1)

\* part_000 423: normalizedTrailing.includes('\n\n\n')
HasTripleNewline(t) ==
    \E k \in 1..(Len(t) - 2) : t[k] = "nl" /\ t[k + 1] = "nl" /\ t[k + 2] = "nl"

RECURSIVE TrimStart(_)
TrimStart(t) == IF t # <<>> /\ IsSpace(Head(t)) THEN TrimStart(Tail(t)) ELSE t

RECURSIVE TrimEnd(_)
TrimEnd(t) ==
    IF t # <<>> /\ IsSpace(t[Len(t)]) THEN TrimEnd(SubSeq(t, 1, Len(t) - 1)) ELSE t

\* part_000 413: uploadedUrl.trim()
Trim(t) == TrimEnd(TrimStart(t))

\* part_000 420-434: the callback of replace()
ResourceReplacement(alt, url, trailing, isLongForm) ==
    LET normalizedTrailing == IF HasTripleNewline(trailing) THEN <<"nl", "nl">> ELSE trailing
    IN  IF isLongForm
        THEN <<"![">> \o alt \o <<"](">> \o Trim(url) \o <<")">> \o normalizedTrailing
        ELSE Trim(url) \o normalizedTrailing

RECURSIVE ReplaceResource(_, _, _, _, _)
\* part_000 417-434: content.replace(regex, callback) for one mapping entry,
\* from position i on
ReplaceResource(t, i, id, url, isLongForm) ==
    IF i > Len(t) THEN <<>>
    ELSE IF t[i] = "![" /\ ResourceCloses(t, i, id) # {}
    THEN LET j == Min(ResourceCloses(t, i, id))
             b == CloseParen(t, j)
             e == SkipSpace(t, b + 1)
         IN  ResourceReplacement(SubSeq(t, i + 1, j - 1), url, SubSeq(t, b + 1, e - 1),
                                 isLongForm)
             \o ReplaceResource(t, e, id, url, isLongForm)
    ELSE <<t[i]>> \o ReplaceResource(t, i + 1, id, url, isLongForm)

RECURSIVE CollapseNewlines(_)
\* /\n\n\n+/g -> '\n\n': a run of three or more newlines is cut down to two
CollapseNewlines(t) ==
    IF Len(t) < 3 THEN t
    ELSE IF t[1] = "nl" /\ t[2] = "nl" /\ t[3] = "nl" THEN CollapseNewlines(Tail(t))
    ELSE <<Head(t)>> \o CollapseNewlines(Tail(t))

CleanupKeeps(t) == t

\* part_000 438: modifiedContent.replace(/\n\n\n+/g, '\n\n')
Cleanup(t) == CollapseNewlines(t)

RECURSIVE ReplaceEntries(_, _, _, _)
\* part_000 411-435: the loop over Object.entries(uploadedResources)
ReplaceEntries(t, mapping, k, isLongForm) ==
    IF k > Len(mapping) THEN t
    ELSE ReplaceEntries(ReplaceResource(t, 1, mapping[k][1], mapping[k][2], isLongForm),
                        mapping, k + 1, isLongForm)

\* part_000 403-442
replaceResourceUrls(content, uploadedResources, isLongForm) ==
    Cleanup(ReplaceEntries(content, uploadedResources, 1, isLongForm))

\* the identifier a target names: ([a-f0-9]+)
IdOf(c) == CHOOSE id \in ResourceIds : c = RefToken(id)

\* the positions of "](" at which !\[.*?\]\(\s*:\/([a-f0-9]+)\s*\) matches from i
AnyResourceCloses(t, i) == UNION {ResourceCloses(t, i, id) : id \in ResourceIds}

RECURSIVE ExtractResources(_, _)
\* part_000 51-65: the identifiers of the matches of the global expression
ExtractResources(t, i) ==
    IF i > Len(t) THEN <<>>
    ELSE IF t[i] = "![" /\ AnyResourceCloses(t, i) # {}
    THEN LET j == Min(AnyResourceCloses(t, i))
         IN  <<IdOf(t[SkipSpace(t, j + 1)])>> \o ExtractResources(t, CloseParen(t, j) + 1)
    ELSE ExtractResources(t, i + 1)

extractResourceIds(content) == ExtractResources(content, 1)

\* encodeURIComponent, unit by unit: "/" is written "%2F"
EncodeUnit(c) == IF c = "/" THEN "%2F" ELSE c

encodeURIComponent(s) == [k \in 1..Len(s) |-> EncodeUnit(s[k])]

\* decodeURIComponent, unit by unit
DecodeUnit(c) == IF c = "%2F" THEN "/" ELSE c

decodeURIComponent(s) == [k \in 1..Len(s) |-> DecodeUnit(s[k])]

\* imageUploader.ts 222: `file://${encodeURIComponent(localPath)}`
FileUrl(localPath) == <<"file://">> \o encodeURIComponent(localPath)

\* the positions of "](" at which !\[(.*?)\]\(FILEURL\) matches from i
FileCloses(t, i, fileUrl) ==
    {j \in (i + 1)..Len(t) :
        /\ t[j] = "]("
        /\ NoNewline(t, i, j)
        /\ j + Len(fileUrl) + 1 <= Len(t)
        /\ SubSeq(t, j + 1, j + Len(fileUrl)) = fileUrl
        /\ t[j + Len(fileUrl) + 1] = ")"}

RECURSIVE ReplaceImage(_, _, _, _)
\* imageUploader.ts 226-231: content.replace(regex, callback) for one entry,
\* from position i on
ReplaceImage(t, i, fileUrl, url) ==
    IF i > Len(t) THEN <<>>
    ELSE IF t[i] = "![" /\ FileCloses(t, i, fileUrl) # {}
    THEN LET j == Min(FileCloses(t, i, fileUrl))
         IN  <<"![">> \o SubSeq(t, i + 1, j - 1) \o <<"](">> \o url \o <<")">>
             \o ReplaceImage(t, j + Len(fileUrl) + 2, fileUrl, url)
    ELSE <<t[i]>> \o ReplaceImage(t, i + 1, fileUrl, url)

RECURSIVE ReplaceImageEntries(_, _, _)
\* imageUploader.ts 219-232: the loop over Object.entries(uploadedImages)
ReplaceImageEntries(t, mapping, k) ==
    IF k > Len(mapping) THEN t
    ELSE ReplaceImageEntries(ReplaceImage(t, 1, FileUrl(mapping[k][1]), mapping[k][2]),
                             mapping, k + 1)

\* imageUploader.ts 213-235
replaceImageUrls(content, uploadedImages) == ReplaceImageEntries(content, uploadedImages, 1)

\* the end of (file:\/\/.*?)\) when "file://" is at position f: the first ")"
\* after it, with no newline in between
LocalEnds(t, f) ==
    {e \in (f + 1)..Len(t) : t[e] = ")" /\ \A k \in (f + 1)..(e - 1) : t[k] # "nl"}

\* the positions of "](" at which !\[.*?\]\((file:\/\/.*?)\) matches from i
LocalCloses(t, i) ==
    {j \in (i + 1)..(Len(t) - 1) :
        /\ t[j] = "]("
        /\ NoNewline(t, i, j)
        /\ t[j + 1] = "file://"
        /\ LocalEnds(t, j + 1) # {}}

RECURSIVE ExtractLocal(_, _)
\* imageUploader.ts 29-44: match[1] without its 'file://', decoded
ExtractLocal(t, i) ==
    IF i > Len(t) THEN <<>>
    ELSE IF t[i] = "![" /\ LocalCloses(t, i) # {}
    THEN LET j == Min(LocalCloses(t, i))
             e == Min(LocalEnds(t, j + 1))
         IN  <<decodeURIComponent(SubSeq(t, j + 2, e - 1))>> \o ExtractLocal(t, e + 1)
    ELSE ExtractLocal(t, i + 1)

extractLocalImagePaths(content) == ExtractLocal(content, 1)

\* ---- one use of the rewriting functions

\* the pieces a note body is put together from
ResourcePieces ==
    { <<"![", "](", ":/m", ")">>, <<"![", "](", ":/u", ")">>, <<"[", "](", ":/m", ")">>,
      <<"nl">>, <<"sp">>, <<"x">> }

FilePieces ==
    { <<"![", "](", "file://", "/", "a", ")">>, <<"![", "](", "file://", "%2F", "a", ")">>,
      <<"![", "](", "file://", "a", ")">>, <<"nl">>, <<"x">> }

RECURSIVE TextsOf(_, _)
\* the texts of at most n pieces
TextsOf(pieces, n) ==
    IF n = 0 THEN {<<>>}
    ELSE LET shorter == TextsOf(pieces, n - 1)
         IN  shorter \cup {p \o t : p \in pieces, t \in shorter}

\* Object.entries of the map uploadResources returns (part_000 376-394)
ResourceMappings ==
    { <<>>, << <<"m", <<"U1">> >> >>, << <<"m", <<"U1", "sp">> >>, <<"u", <<"U2">> >> >> }

\* Object.entries of the map uploadImages returns (imageUploader.ts 187-205)
FileMappings ==
    { <<>>, << << <<"/", "a">>, <<"U1">> >> >>,
      << << <<"a">>, <<"U1">> >>, << <<"/", "a">>, <<"U2">> >> >> }

\* the kind of the record the rewritten text is written for: part_000 400 has
\* isLongForm stand for it; publish.ts 241 passes replaceImageUrls no style, and
\* is reached in both publish modes
RewriteCalls ==
    { [pc |-> "called", form |-> "resource", text |-> t, mapping |-> m, isLongForm |-> l,
       kind |-> (IF l THEN KindLongForm ELSE KindNote),
       out |-> <<>>, again |-> <<>>, found |-> <<>>] :
         t \in TextsOf(ResourcePieces, MaxPieces), m \in ResourceMappings, l \in BOOLEAN }
    \cup
    [pc : {"called"}, form : {"file"}, text : TextsOf(FilePieces, MaxPieces),
     mapping : FileMappings, isLongForm : {TRUE}, kind : {KindNote, KindLongForm},
     out : {<<>>}, again : {<<>>}, found : {<<>>}]

\* the rewriting function of the call's form
Rewritten(c, text) ==
    IF c.form = "resource" THEN replaceResourceUrls(text, c.mapping, c.isLongForm)
    ELSE replaceImageUrls(text, c.mapping)

\* the extracting function of the call's form
Extracted(c, text) ==
    IF c.form = "resource" THEN extractResourceIds(text) ELSE extractLocalImagePaths(text)

RewriteInit ==
    /\ settings \in {st \in FetchSettings : st.profileName = ""}
    /\ note = NoNote
    /\ now = 0
    /\ PInit
    /\ FIdle
    /\ uc = [pc |-> "idle"]
    /\ ud = [runs |-> <<>>, overlapped |-> FALSE]
    /\ rw \in RewriteCalls

\* the note content is rewritten with the map of the uploads
RwRewrite ==
    /\ rw.pc = "called"
    /\ rw' = [rw EXCEPT !.pc = "rewritten", !.out = Rewritten(rw, rw.text)]
    /\ UNCHANGED <<settings, note, now, pvars, fvars, uc, ud>>

\* the rewritten content is rewritten with the same map
RwRewriteAgain ==
    /\ rw.pc = "rewritten"
    /\ rw' = [rw EXCEPT !.pc = "twice", !.again = Rewritten(rw, rw.out)]
    /\ UNCHANGED <<settings, note, now, pvars, fvars, uc, ud>>

\* the references are extracted from the rewritten content
RwExtract ==
    /\ rw.pc = "rewritten"
    /\ rw' = [rw EXCEPT !.pc = "extracted", !.found = Extracted(rw, rw.out)]
    /\ UNCHANGED <<settings, note, now, pvars, fvars, uc, ud>>

RewriteNext ==
    \/ RwRewrite
    \/ RwRewriteAgain
    \/ RwExtract

RewriteSpec == RewriteInit /\ [][RewriteNext]_vars

\* ------------------------------------------------------ claims: content rewriting

\* the identifiers the map has an uploaded URL for
MappedIds(c) == {c.mapping[k][1] : k \in 1..Len(c.mapping)}

\* the references of a text to identifiers the map does not cover, in order
UnmappedRefs(c, text) == SelectSeq(Extracted(c, text), LAMBDA id : id \notin MappedIds(c))

\* C27: rewriting leaves the references to identifiers that are not in the
\* map as they were, in both output styles: the image references to unmapped
\* identifiers that the rewritten text holds are those of the original text,
\* also when an unmapped and a mapped image reference share a line.
C27_UnmappedUntouched ==
    rw.pc = "rewritten" => UnmappedRefs(rw, rw.out) = UnmappedRefs(rw, rw.text)

C29_Idempotent ==
    rw.pc = "twice" => rw.again = rw.out

\* the identifiers the map covers that the extractor finds in the original text
MappedRefs(c, text) == {id \in MappedIds(c) : \E k \in 1..Len(Extracted(c, text)) :
                                                 Extracted(c, text)[k] = id}

\* C30: rewriting replaces every occurrence of every reference that the
\* extractor finds and the map covers: the extractor finds none of the mapped
\* identifiers in the rewritten text, for file paths and for resource ids.
C30_MappedRefsGone ==
    rw.pc = "extracted" =>
        \A k \in 1..Len(rw.found) : rw.found[k] \notin MappedRefs(rw, rw.text)

\* ------------------------------------------------- claims: style, dialogs, kinds

\* the text is one image reference and nothing else
ImageRefs ==
    { <<"![", "](", ":/m", ")">>, <<"![", "](", ":/u", ")">>,
      <<"![", "](", "file://", "/", "a", ")">>, <<"![", "](", "file://", "%2F", "a", ")">>,
      <<"![", "](", "file://", "a", ")">> }

\* the uploaded URL the map holds for the identifier of that one reference
UrlOfOnlyRef(c) ==
    LET id == Extracted(c, c.text)[1]
        k == CHOOSE k \in 1..Len(c.mapping) :
                 /\ c.mapping[k][1] = id
                 /\ \A n \in 1..Len(c.mapping) : c.mapping[n][1] = id => n <= k
    IN  Trim(c.mapping[k][2])

\* C31: a mapped image reference becomes, for a long-form record (kind 30023),
\* the image construct with its alt text and the uploaded URL as target, and,
\* for a regular note (kind 1), the bare uploaded URL: the style follows the
\* kind of the record the text is rewritten for.
C31_StyleFollowsKind ==
    (rw.pc = "rewritten" /\ rw.text \in ImageRefs /\ MappedRefs(rw, rw.text) # {}) =>
        rw.out = IF rw.kind = KindLongForm
                 THEN <<"![", "](">> \o UrlOfOnlyRef(rw) \o <<")">>
                 ELSE UrlOfOnlyRef(rw)

\* some call of uploadImageToBlossom of this run has returned a failure
UploadFailed == \E i \in 1..Len(upload.results) : ~upload.results[i].success

\* C32: when an image upload of a publish run has failed, the user is asked
\* whether to proceed without the image or to cancel before the note goes to
\* any relay.  The command can ask only through a dialog it opens after the
\* failure, which is a message box: so no record is signed and no relay is
\* connected to after a failed upload unless a message box has been shown.
C32_AskedBeforePublishing ==
    UploadFailed /\ (signCount > 0 \/ RelayTouched) => messageBox # <<>>

\* the records of this run that exist: the signed one and those sent to relays
RecordsOfRun ==
    (IF signCount > 0 THEN {signedEvent} ELSE {})
    \cup {relayLog[j].sent : j \in {k \in 1..NRelays : relayLog[k].publishes > 0}}

\* C33: a record of kind 30023 exists only in a run whose note body is longer
\* than 256 characters and in which the long-form button was chosen; in every
\* other run that was confirmed the record has kind 1 and its content is the
\* title, an empty line and the (rewritten) body.
C33_LongFormOnlyWhenChosen ==
    \A ev \in RecordsOfRun :
        /\ ev.kind \in {KindNote, KindLongForm}
        /\ ev.kind = KindLongForm => note.len > LongNoteLen /\ publishMode = "longform"
        /\ ~(note.len > LongNoteLen /\ publishMode = "longform") =>
              /\ ev.kind = KindNote
              /\ ev.content = <<note.title, "\n\n", noteContent>>

C33_Witness ==
    /\ NRelays = 1
    /\ relayLog[1].succ = 1
    /\ relayLog[1].sent.kind = KindLongForm
    /\ note.len = LongNoteLen + 1

\* ---------------------------------------------------- claims: fetch termination

\* the fetch has ended: its results are written and close() was called on
\* every connection
FetchCompleted ==
    /\ fpc = "done"
    /\ settings.profileName # ""
    /\ settings.nip65Relays # <<"wss://old">>
    /\ \A i \in 1..Len(fconn.connections) :
          fconn.connections[i] \in fconn.closed \cup fconn.closeThrew
    /\ fconn.open \subseteq fconn.closeThrew

\* C35: once the connect loop has ended with at least one connection, the
\* fetch eventually completes, whatever the relays deliver: nothing at all, a
\* profile record that does not parse, or a match for one filter only.
C35_FetchCompletes ==
    (fci > Len(FetchRelays) /\ ~fconn.pending /\ fconn.connections # <<>>) ~> FetchCompleted

\* a profile record that does not parse was the only delivery, and the fetch ended
C35_Witness ==
    /\ FetchCompleted
    /\ Len(fconn.connections) = 2
    /\ matched.profile # <<>> /\ ~matched.profile[1].content.ok
    /\ matched.relayList = <<>>
    /\ timers.hard = "fired"

\* the relay loop of the run has ended: every configured relay has its outcome
RelayLoopEnded == signCount > 0 /\ ri > NRelays /\ \A j \in 1..NRelays : Outcomes(j) = 1

\* C36: a result dialog is opened only when the relay loop has ended, and a
\* run whose relay loop has ended without the loading dialog being cancelled
\* has opened one; once the cancel of the loading dialog has been processed
\* with no result dialog open, none is opened in that run; a result dialog
\* that is open is never opened again or replaced.
C36_ResultDialogUnlessCancelled ==
    /\ [](/\ resultDialog.shown => pc = "done" /\ RelayLoopEnded
          /\ (pc = "done" /\ RelayLoopEnded /\ loadingDialog # "cancelled") => resultDialog.shown)
    /\ [][/\ (loadingDialog = "cancelled" /\ ~resultDialog.shown) => ~resultDialog'.shown
          /\ resultDialog.shown => resultDialog' = resultDialog]_vars

\* the cancel came while the second relay was being published to
C36_Witness ==
    /\ pc = "done" /\ RelayLoopEnded /\ NRelays = 2
    /\ loadingDialog = "cancelled" /\ ~resultDialog.shown
    /\ relayLog[1].fail = 1 /\ relayLog[2].succ = 1
    /\ upload.attempts = <<>>

\* C38: when the user cancels the confirmation dialog the command ends there:
\* the step from the confirmation to the end of the command opens no loading
\* dialog, and a command that has ended without ever opening the loading
\* dialog has made no upload, signed nothing, connected to no relay and opened
\* no result dialog.
C38_ConfirmCancelDoesNothing ==
    /\ [][(pc = "confirm" /\ pc' = "done") =>
             /\ loadingDialog' = "none" /\ ~showResultDialog'
             /\ NoNetworkActivity' /\ ~resultDialog'.shown
             /\ messageBox' = messageBox]_vars
    /\ []((pc = "done" /\ loadingDialog = "none") =>
             /\ NoNetworkActivity /\ ~resultDialog.shown
             /\ upload = NoUpload /\ signedEvent = NoEvent)
    /\ [](pc = "confirm" => ENABLED (Confirm("cancel") /\ pc' = "done"))

\* the confirmation of a long note with an image to upload was cancelled
C38_Witness ==
    /\ pc = "done" /\ loadingDialog = "none" /\ messageBox = <<>>
    /\ note.open /\ note.len > LongNoteLen /\ Len(note.images) = 1
    /\ UploadsWanted /\ NRelays = 2

\* ------------------------------------------------------- claims: nip65 relay list

\* the second elements of the 'r' tags that start with wss://, in tag order
WssOfRTags(tags) ==
    LET rs == SelectSeq(tags, LAMBDA t : Len(t) >= 2 /\ t[1] = "r" /\ t[2] \in WssUrls)
    IN  [i \in 1..Len(rs) |-> rs[i][2]]

EmptyNsec == [text |-> "", len |-> 0, prefix |-> FALSE]

\* the values the key setting is changed to
DerivedKeys ==
    { EmptyNsec,
      [text |-> "nsec1s", len |-> MinNsecLen - 1, prefix |-> TRUE],
      [text |-> "nsec1a", len |-> MinNsecLen,     prefix |-> TRUE],
      [text |-> "nsec1b", len |-> MaxNsecLen,     prefix |-> TRUE],
      [text |-> "nsec1l", len |-> MaxNsecLen + 1, prefix |-> TRUE],
      [text |-> "npub1x", len |-> MinNsecLen,     prefix |-> FALSE] }

\* what the library and the relays hold for a key
Npub(k) == IF k.text = "nsec1a" THEN "npub1a" ELSE "npub1b"
NameOf(k) == IF k.text = "nsec1a" THEN "alice" ELSE "bob"
PictureOf(k) == IF k.text = "nsec1a" THEN "a.png" ELSE "b.png"
RelaysOf(k) == IF k.text = "nsec1a" THEN <<"wss://x">> ELSE <<"wss://y">>

SurfaceOkNoLength(nsec) == nsec.prefix

\* line 32, negated
SurfaceOk(nsec) == nsec.prefix /\ nsec.len >= MinNsecLen /\ nsec.len <= MaxNsecLen

\* joplin.settings.setValue(target, value), or panels.setHtml for the panel
HostWrite(target, value) == [target |-> target, value |-> value]

\* lines 23-27
ClearedWrites ==
    << HostWrite("npubDisplay", ""), HostWrite("profileName", ""),
       HostWrite("profilePicture", ""), HostWrite("nip65Relays", <<>>),
       HostWrite("panel", "No profile loaded yet") >>

\* lines 33-34
InvalidFormatWrites ==
    << HostWrite("npubDisplay", "Invalid NSEC format"), HostWrite("panel", "Invalid NSEC format") >>

\* lines 46-47
InvalidKeyWrites ==
    << HostWrite("npubDisplay", "Invalid NSEC key"), HostWrite("panel", "Invalid NSEC key") >>

\* lines 64-65
DeriveErrorWrites ==
    << HostWrite("npubDisplay", "Error deriving npub"), HostWrite("panel", "Error deriving npub") >>

\* fetchProfileInfo for the key k: lines 108-111 when no relay was reached,
\* lines 243-281 otherwise
FetchWrites(k, reached, profileFound, relayListFound) ==
    IF ~reached
    THEN << HostWrite("profileName", "Could not connect to any relays"),
            HostWrite("profilePicture", ""), HostWrite("nip65Relays", <<>>),
            HostWrite("panel", "Could not connect to any relays") >>
    ELSE << HostWrite("profileName", IF profileFound THEN NameOf(k) ELSE "No profile found"),
            HostWrite("profilePicture", IF profileFound THEN PictureOf(k) ELSE ""),
            HostWrite("panel", [picture |-> IF profileFound THEN PictureOf(k) ELSE "",
                                name |-> IF profileFound THEN NameOf(k) ELSE "Anonymous"]),
            HostWrite("nip65Relays", IF relayListFound THEN RelaysOf(k) ELSE <<>>) >>

\* a call of updateDerivedValues that has not run yet
NewRun == [pc |-> "called", key |-> EmptyNsec, todo |-> <<>>, then |-> "done",
           written |-> <<>>, connects |-> 0]

DerivedInit ==
    /\ settings = [nsecString |-> EmptyNsec, relaySource |-> "nip65", relayList |-> <<>>,
                   nip65Relays |-> <<>>, enableImageUpload |-> FALSE, blossomServerUrl |-> "",
                   npubDisplay |-> "", profileName |-> "", profilePicture |-> ""]
    /\ note = NoNote
    /\ now = 0
    /\ PInit
    /\ FIdle
    /\ XIdle

Runs == 1..Len(ud.runs)

\* the user changes the key; part_002 396-401: the handler calls updateDerivedValues
KeyChange(k) ==
    /\ k \in DerivedKeys
    /\ k # settings.nsecString
    /\ Len(ud.runs) < MaxRuns
    /\ settings' = [settings EXCEPT !.nsecString = k]
    /\ ud' = [runs |-> Append(ud.runs, NewRun),
              overlapped |-> ud.overlapped \/ \E r \in Runs : ud.runs[r].pc # "done"]
    /\ UNCHANGED <<note, now, pvars, fvars, uc, rw>>

\* the writes a run makes for the key it has read, and where it goes on
StartWrites(run, writes, next) ==
    [run EXCEPT !.pc = "writing", !.todo = writes, !.then = next]

\* lines 19-37: the key is read and checked
UdRead(r) ==
    /\ r \in Runs
    /\ ud.runs[r].pc = "called"
    /\ LET nsec == settings.nsecString
           run == [ud.runs[r] EXCEPT !.key = nsec]
       IN  ud' = [ud EXCEPT !.runs[r] =
                     IF nsec.len = 0 THEN StartWrites(run, ClearedWrites, "done")
                     ELSE IF ~SurfaceOk(nsec) THEN StartWrites(run, InvalidFormatWrites, "done")
                     ELSE [run EXCEPT !.pc = "decode"]]
    /\ UNCHANGED <<settings, note, now, pvars, fvars, uc, rw>>

UdDecodeOutcomes == {"nsec", "othertype", "throws"}

\* lines 39-57 and 62-66: nostr-tools is imported, the key decoded, the npub encoded
UdDecode(r, outcome) ==
    /\ r \in Runs
    /\ ud.runs[r].pc = "decode"
    /\ outcome \in UdDecodeOutcomes
    /\ ud' = [ud EXCEPT !.runs[r] =
                 IF outcome = "nsec"
                 THEN StartWrites(@, <<HostWrite("npubDisplay", Npub(@.key))>>, "fetch")
                 ELSE IF outcome = "othertype" THEN StartWrites(@, InvalidKeyWrites, "done")
                 ELSE StartWrites(@, DeriveErrorWrites, "done")]
    /\ UNCHANGED <<settings, note, now, pvars, fvars, uc, rw>>

\* line 60: fetchProfileInfo connects to its relays and has its outcome
UdFetch(r, reached, profileFound, relayListFound) ==
    /\ r \in Runs
    /\ ud.runs[r].pc = "fetch"
    /\ ud' = [ud EXCEPT !.runs[r] =
                 [StartWrites(@, FetchWrites(@.key, reached, profileFound, relayListFound), "done")
                      EXCEPT !.connects = Len(FetchRelays)]]
    /\ UNCHANGED <<settings, note, now, pvars, fvars, uc, rw>>

\* the next awaited host write of run r is made
UdWrite(r) ==
    /\ r \in Runs
    /\ ud.runs[r].pc = "writing"
    /\ LET run == ud.runs[r]
           w == Head(run.todo)
       IN  /\ ud' = [ud EXCEPT !.runs[r] =
                        [run EXCEPT !.todo = Tail(run.todo),
                                    !.written = Append(run.written, w),
                                    !.pc = IF Tail(run.todo) = <<>> THEN run.then ELSE "writing"]]
           /\ IF w.target = "panel"
              THEN /\ panelHtml' = w.value
                   /\ UNCHANGED settings
              ELSE /\ settings' = [settings EXCEPT ![w.target] = w.value]
                   /\ UNCHANGED panelHtml
    /\ UNCHANGED <<note, now, pvars, uc, rw, fpc, fci, fconn, subs, timers, found, promise,
                   fetched, delivered, matched, eose, hostFault>>

DerivedNext ==
    \/ \E k \in DerivedKeys : KeyChange(k)
    \/ \E r \in 1..MaxRuns : UdRead(r)
    \/ \E r \in 1..MaxRuns, o \in UdDecodeOutcomes : UdDecode(r, o)
    \/ \E r \in 1..MaxRuns, c \in BOOLEAN, p \in BOOLEAN, l \in BOOLEAN : UdFetch(r, c, p, l)
    \/ \E r \in 1..MaxRuns : UdWrite(r)

DerivedSpec == DerivedInit /\ [][DerivedNext]_vars

\* ------------------------------------------------ claims: updateDerivedValues

ValidDerivedKeys == {k \in DerivedKeys : SurfaceOk(k)}

\* the derived settings hold nothing that was derived from a valid key other than k
NothingFromOtherKeys(k) ==
    \A o \in ValidDerivedKeys \ {k} :
        /\ settings.npubDisplay # Npub(o)
        /\ settings.profileName # NameOf(o)
        /\ settings.profilePicture # PictureOf(o)
        /\ settings.nip65Relays # RelaysOf(o)

\* C34: when runs of updateDerivedValues have overlapped and all of them have
\* completed, the derived settings correspond to the key the setting now
\* holds: all four are cleared for an empty key, npubDisplay reports the
\* format error for a key that fails the surface check and is the key's npub
\* (or a decoding error) for a valid one, and no setting holds a value derived
\* from an earlier key.
C34_DerivedFromLatestKey ==
    (ud.overlapped /\ \A r \in Runs : ud.runs[r].pc = "done") =>
        LET k == settings.nsecString IN
        /\ k.len = 0 =>
              /\ settings.npubDisplay = "" /\ settings.profileName = ""
              /\ settings.profilePicture = "" /\ settings.nip65Relays = <<>>
        /\ (k.len # 0 /\ ~SurfaceOk(k)) => settings.npubDisplay = "Invalid NSEC format"
        /\ SurfaceOk(k) =>
              settings.npubDisplay \in {Npub(k), "Invalid NSEC key", "Error deriving npub"}
        /\ NothingFromOtherKeys(k)


\* the surface check as the claim words it: prefix 'nsec1', length 50 to 70
FailsSurfaceCheck(k) == k.len # 0 /\ ~(k.prefix /\ k.len >= 50 /\ k.len <= 70)

\* the empty value of a derived setting
EmptyOf(t) == IF t = "nip65Relays" THEN <<>> ELSE ""

\* a run that has read its key
HasRead(run) == run.pc # "called"

\* C37: a run of updateDerivedValues that read a non-empty key failing the
\* surface check changes only npubDisplay (every other setting is left as it
\* was at each of its steps), opens no relay connection, and ends having
\* written 'Invalid NSEC format' to npubDisplay and to the panel and nothing
\* else; a run that read the empty key ends having written the empty value to
\* npubDisplay, profileName, profilePicture and nip65Relays, and each of those
\* writes leaves the setting empty.
C37_SurfaceCheckFailureWritesOnlyNpub ==
    /\ [](\A r \in Runs :
            LET run == ud.runs[r] IN
            /\ (HasRead(run) /\ FailsSurfaceCheck(run.key)) =>
                  /\ run.connects = 0
                  /\ Len(run.written) <= 2
                  /\ run.pc = "done" =>
                        /\ Len(run.written) = 2
                        /\ run.written[1].target = "npubDisplay"
                        /\ run.written[1].value = "Invalid NSEC format"
                        /\ run.written[2].target = "panel"
                        /\ run.written[2].value = "Invalid NSEC format"
            /\ (run.pc = "done" /\ run.key.len = 0) =>
                  /\ run.connects = 0
                  /\ \A t \in {"npubDisplay", "profileName", "profilePicture", "nip65Relays"} :
                        \E i \in 1..Len(run.written) :
                            /\ run.written[i].target = t
                            /\ run.written[i].value = EmptyOf(t))
    /\ [][\A r \in Runs :
            (ud'.runs[r] # ud.runs[r]) =>
                /\ FailsSurfaceCheck(ud'.runs[r].key) =>
                      settings' = [settings EXCEPT !.npubDisplay = settings'.npubDisplay]
                /\ (HasRead(ud.runs[r]) /\ ud.runs[r].key.len = 0
                        /\ Len(ud'.runs[r].written) > Len(ud.runs[r].written)) =>
                      LET w == ud'.runs[r].written[Len(ud'.runs[r].written)] IN
                      w.target # "panel" => settings'[w.target] = EmptyOf(w.target)]_vars

\* a run for a key that fails the surface check and a run for the empty key
\* have both completed, and npubDisplay reports the format error
C37_Witness ==
    \E a, b \in Runs :
        /\ ud.runs[a].pc = "done" /\ FailsSurfaceCheck(ud.runs[a].key)
        /\ Len(ud.runs[a].written) = 2
        /\ settings.npubDisplay = "Invalid NSEC format"
        /\ ud.runs[b].pc = "done" /\ ud.runs[b].key.len = 0
        /\ Len(ud.runs[b].written) = 5

====
